---- MODULE Spec2Model ----
(***************************************************************************)
(* A model of tap-rest-api: the pagination strategies (pagination.py), the *)
(* record extractor (record_extractor.py), discovery (discover.py) and the *)
(* sync orchestrator (sync.py).                                            *)
(***************************************************************************)
EXTENDS Integers, Sequences, FiniteSets, TLC

(***************************************************************************)
(* Decoded JSON values.  A value is a record tagged by t; an object keeps  *)
(* its members as a sequence of key/value pairs in insertion order, as a   *)
(* Python dict does.  A string carries its length (len() of a str).        *)
(***************************************************************************)
JNull == [t |-> "null"]
JNum(n) == [t |-> "num", n |-> n]
JStr(s, len) == [t |-> "str", s |-> s, len |-> len]
JList(items) == [t |-> "list", items |-> items]
JDict(pairs) == [t |-> "dict", pairs |-> pairs]
Pair(k, v) == [k |-> k, v |-> v]

IsList(v) == v.t = "list"
IsDict(v) == v.t = "dict"

\* key in d
KeyIn(k, d) == \E i \in 1..Len(d.pairs) : d.pairs[i].k = k
\* d[key]
Get(d, k) == d.pairs[CHOOSE i \in 1..Len(d.pairs) : d.pairs[i].k = k].v

\* a truthiness test that takes only None for false
Truthy_only_none(v) == v.t # "null"

\* Python truthiness of a decoded JSON value
Truthy(v) ==
    CASE v.t = "null" -> FALSE
      [] v.t = "num" -> v.n # 0
      [] v.t = "str" -> v.len > 0
      [] v.t = "list" -> Len(v.items) > 0
      [] v.t = "dict" -> Len(v.pairs) > 0

\* [r for r in value if isinstance(r, dict)]
DictItems(items) == SelectSeq(items, IsDict)

(***************************************************************************)
(* Path expressions: $.f1.f2 with an optional trailing [*].  set = FALSE   *)
(* is an absent (None or empty) expression; invalid = TRUE is a string     *)
(* that jsonpath_parse rejects.                                            *)
(***************************************************************************)
NoPath == [set |-> FALSE, fields |-> <<>>, star |-> FALSE, invalid |-> FALSE]
Path(fields, star) ==
    [set |-> TRUE, fields |-> fields, star |-> star, invalid |-> FALSE]
InvalidPath == [set |-> TRUE, fields |-> <<>>, star |-> FALSE, invalid |-> TRUE]

RECURSIVE Descend(_, _)
Descend(v, fields) ==
    IF fields = <<>> THEN <<v>>
    ELSE IF IsDict(v) /\ KeyIn(Head(fields), v) /\ Get(v, Head(fields)).t # "null"
         THEN Descend(Get(v, Head(fields)), Tail(fields))
         ELSE <<>>

\* jsonpath_parse(expression).find(data): the matched values, in order
jsonpath_find(data, expression) ==
    LET base == Descend(data, expression.fields)
    IN  IF ~expression.star \/ base = <<>> THEN base
        ELSE IF IsList(base[1]) THEN base[1].items
        ELSE IF base[1].t = "null" THEN <<>>
        ELSE <<base[1]>>

Min(S) == CHOOSE x \in S : \A y \in S : x <= y

(***************************************************************************)
(* record_extractor.py                                                     *)
(***************************************************************************)
COMMON_RECORD_KEYS ==
    <<"data", "results", "items", "records", "value", "entries", "objects",
      "rows", "content", "hits", "documents", "list", "response", "payload">>

\* the loop over the matches of _extract_jsonpath
RECURSIVE CollectMatches(_)
CollectMatches(matches) ==
    IF matches = <<>> THEN <<>>
    ELSE LET value == Head(matches)
         IN  (IF IsList(value) THEN DictItems(value.items)
              ELSE IF IsDict(value) THEN <<value>>
              ELSE <<>>) \o CollectMatches(Tail(matches))

\* the exception raised inside the try block of _extract_jsonpath, "" when
\* none is: jsonpath_parse rejects an expression it cannot parse
jsonpath_parse_error(expression) ==
    IF expression.invalid THEN "JsonPathParserError" ELSE ""

\* a handler that lets the exception through
except_reraise(exception) == exception

\* "except Exception as e: ... return []": what still propagates
except_Exception(exception) == ""

\* record_extractor._extract_jsonpath
_extract_jsonpath(data, expression) ==
    IF jsonpath_parse_error(expression) # "" THEN <<>>
    ELSE LET matches == jsonpath_find(data, expression)
         IN  IF matches = <<>> THEN <<>> ELSE CollectMatches(matches)

\* a detection that does not look one level deeper
SubKeyRecords_not_probed(value) == <<>>

\* the inner loop of _auto_detect_records: one level deeper
SubKeyRecords(value) ==
    LET hits == {i \in 1..Len(COMMON_RECORD_KEYS) :
                    /\ KeyIn(COMMON_RECORD_KEYS[i], value)
                    /\ IsList(Get(value, COMMON_RECORD_KEYS[i]))
                    /\ DictItems(Get(value, COMMON_RECORD_KEYS[i]).items) # <<>>}
    IN  IF hits = {} THEN <<>>
        ELSE DictItems(Get(value, COMMON_RECORD_KEYS[Min(hits)]).items)

\* what one iteration of the outer loop of _auto_detect_records finds
KeyRecords(data, key) ==
    IF ~KeyIn(key, data) THEN <<>>
    ELSE LET value == Get(data, key)
         IN  IF IsList(value) THEN DictItems(value.items)
             ELSE IF IsDict(value) THEN SubKeyRecords(value)
             ELSE <<>>

\* the fallback of _auto_detect_records: the first key holding the largest
\* list of dicts, 0 when no list holds a dict
BestKeyIndex(data) ==
    LET cnt(i) == IF IsList(data.pairs[i].v)
                  THEN Len(DictItems(data.pairs[i].v.items)) ELSE 0
        idx == 1..Len(data.pairs)
        best == {i \in idx : cnt(i) > 0 /\ \A j \in idx :
                                 cnt(j) <= cnt(i) /\ (j < i => cnt(j) < cnt(i))}
    IN  IF best = {} THEN 0 ELSE Min(best)

\* a detection without its last resort
_auto_detect_records_or_nothing(data) ==
    LET hits == {i \in 1..Len(COMMON_RECORD_KEYS) :
                    KeyRecords(data, COMMON_RECORD_KEYS[i]) # <<>>}
        b == BestKeyIndex(data)
    IN  IF hits # {} THEN KeyRecords(data, COMMON_RECORD_KEYS[Min(hits)])
        ELSE IF b # 0 /\ data.pairs[b].k # ""
             THEN DictItems(data.pairs[b].v.items)
        ELSE <<>>

_auto_detect_records(data) ==
    LET hits == {i \in 1..Len(COMMON_RECORD_KEYS) :
                    KeyRecords(data, COMMON_RECORD_KEYS[i]) # <<>>}
        b == BestKeyIndex(data)
    IN  IF hits # {} THEN KeyRecords(data, COMMON_RECORD_KEYS[Min(hits)])
        ELSE IF b # 0 /\ data.pairs[b].k # ""
             THEN DictItems(data.pairs[b].v.items)
        ELSE <<data>>

\* an extractor that auto-detects when the path expression yields nothing
extract_records_fallback(response_data, records_path) ==
    IF response_data.t = "null" THEN <<>>
    ELSE IF IsList(response_data) THEN DictItems(response_data.items)
    ELSE IF records_path.set
              /\ _extract_jsonpath(response_data, records_path) # <<>>
         THEN _extract_jsonpath(response_data, records_path)
    ELSE IF IsDict(response_data) THEN _auto_detect_records(response_data)
    ELSE <<>>

extract_records(response_data, records_path) ==
    IF response_data.t = "null" THEN <<>>
    ELSE IF IsList(response_data) THEN DictItems(response_data.items)
    ELSE IF records_path.set THEN _extract_jsonpath(response_data, records_path)
    ELSE IF IsDict(response_data) THEN _auto_detect_records(response_data)
    ELSE <<>>

\* the exception that leaves extract_records, "" when it returns
extract_records_raises(response_data, records_path) ==
    IF response_data.t = "null" \/ IsList(response_data) THEN ""
    ELSE IF records_path.set
         THEN except_Exception(jsonpath_parse_error(records_path))
    ELSE ""

(***************************************************************************)
(* schema_inference.py: type inference and type merge.  A JSON Schema dict *)
(* is a function from the keys it holds to their values; {} is the empty   *)
(* function.                                                               *)
(***************************************************************************)
EmptyDict == <<>>

\* d.get(key, default)
dict_get(d, key, default) == IF key \in DOMAIN d THEN d[key] ELSE default

\* bool(d) of a dict
NonEmpty(d) == DOMAIN d # {}

\* a Python value as _infer_type sees it: its class and, for a str, what
\* _looks_like_datetime answers
PyValue(py, datetime) == [py |-> py, looks_like_datetime |-> datetime]

PyValues ==
    {PyValue(c, FALSE) :
        c \in {"NoneType", "bool", "int", "float", "str", "dict", "list", "bytes"}}
    \cup {PyValue("str", TRUE)}

\* a type that leaves null out
Typed_without_null(kind) == [type |-> <<kind>>]

Typed(kind) == [type |-> <<"null", kind>>]

_infer_type(value) ==
    CASE value.py = "NoneType" -> Typed("string")
      [] value.py = "bool" -> Typed("boolean")
      [] value.py = "int" -> Typed("integer")
      [] value.py = "float" -> Typed("number")
      [] value.py = "str" ->
            IF value.looks_like_datetime
            THEN [type |-> <<"null", "string">>, format |-> "date-time"]
            ELSE Typed("string")
      [] value.py = "dict" ->
            [type |-> <<"null", "object">>, properties |-> EmptyDict]
      [] value.py = "list" ->
            [type |-> <<"null", "array">>, items |-> EmptyDict]
      [] OTHER -> Typed("string")

\* list(OrderedDict.fromkeys(types))
RECURSIVE Deduplicated(_)
Deduplicated(types) ==
    IF types = <<>> THEN <<>>
    ELSE LET front == Deduplicated(SubSeq(types, 1, Len(types) - 1))
             last == types[Len(types)]
         IN  IF \E i \in 1..Len(front) : front[i] = last
             THEN front ELSE Append(front, last)

Kinds(types) == {types[i] : i \in 1..Len(types)}

\* a format rule that looks at type_a alone
keeps_format_of_a(type_a, type_b) ==
    dict_get(type_a, "format", "") # ""

\* a format rule that keeps the format of type_a beside any string kind
keeps_format_beside_string(type_a, type_b) ==
    /\ dict_get(type_a, "format", "") # ""
    /\ "string" \in Kinds(dict_get(type_b, "type", <<>>))

\* type_a.get("format") and type_a.get("format") == type_b.get("format")
keeps_format(type_a, type_b) ==
    /\ dict_get(type_a, "format", "") # ""
    /\ "format" \in DOMAIN type_b
    /\ type_a["format"] = type_b["format"]

RECURSIVE _merge_types(_, _)
_merge_types(type_a, type_b) ==
    IF ~NonEmpty(type_a) THEN type_b
    ELSE IF ~NonEmpty(type_b) THEN type_a
    ELSE
    LET types_a == dict_get(type_a, "type", <<>>)
        types_b == dict_get(type_b, "type", <<>>)
        merged == Deduplicated(types_a \o types_b)
        props_a == dict_get(type_a, "properties", EmptyDict)
        props_b == dict_get(type_b, "properties", EmptyDict)
        merged_props ==
            [key \in DOMAIN props_a \cup DOMAIN props_b |->
                IF key \in DOMAIN props_a /\ key \in DOMAIN props_b
                THEN _merge_types(props_a[key], props_b[key])
                ELSE IF key \in DOMAIN props_a THEN props_a[key]
                ELSE props_b[key]]
        items_a == dict_get(type_a, "items", EmptyDict)
        items_b == dict_get(type_b, "items", EmptyDict)
    IN  (IF "array" \in Kinds(merged) /\ (NonEmpty(items_a) \/ NonEmpty(items_b))
         THEN "items" :> (IF NonEmpty(items_a) /\ NonEmpty(items_b)
                          THEN _merge_types(items_a, items_b)
                          ELSE IF NonEmpty(items_a) THEN items_a ELSE items_b)
         ELSE EmptyDict)
        @@ (IF "object" \in Kinds(merged) /\ NonEmpty(merged_props)
            THEN "properties" :> merged_props ELSE EmptyDict)
        @@ (IF keeps_format(type_a, type_b)
            THEN "format" :> type_a["format"] ELSE EmptyDict)
        @@ ("type" :> merged)

MAX_DENEST_DEPTH == 10
ITEM_SAMPLE == 10
MAX_RECORDS == 500

\* strings that _looks_like_datetime accepts, among those the model uses
DatetimeTexts == {"2024-01-15T10:30:00Z"}

\* the class of a decoded JSON value, as _infer_type tests it
PyOf(value) ==
    CASE value.t = "null" -> PyValue("NoneType", FALSE)
      [] value.t = "num" -> PyValue("int", FALSE)
      [] value.t = "str" -> PyValue("str", value.s \in DatetimeTexts)
      [] value.t = "list" -> PyValue("list", FALSE)
      [] value.t = "dict" -> PyValue("dict", FALSE)

\* d[key] = value
dict_set(d, key, value) == (key :> value) @@ d

RECURSIVE _observe_record(_, _, _)
RECURSIVE ObserveItems(_, _, _)

\* one iteration of the loop of _observe_record
ObserveField(properties, key, value, depth) ==
    LET inferred == _infer_type(PyOf(value))
        merged == IF key \in DOMAIN properties
                  THEN _merge_types(properties[key], inferred)
                  ELSE inferred
        nested == IF IsDict(value) /\ "properties" \in DOMAIN merged
                  THEN dict_set(merged, "properties",
                          _observe_record(merged["properties"], value, depth + 1))
                  ELSE merged
    IN  IF IsList(value) /\ value.items # <<>>
        THEN dict_set(properties, key,
                dict_set(nested, "items",
                    ObserveItems(dict_get(nested, "items", EmptyDict),
                                 SubSeq(value.items, 1,
                                        IF Len(value.items) < ITEM_SAMPLE
                                        THEN Len(value.items) ELSE ITEM_SAMPLE),
                                 depth)))
        ELSE dict_set(properties, key, nested)

\* the loop over value[:10] of _observe_record
ObserveItems(items_schema, items, depth) ==
    IF items = <<>> THEN items_schema
    ELSE LET item == Head(items)
             with_props == IF "properties" \in DOMAIN items_schema
                           THEN items_schema
                           ELSE dict_set(items_schema, "properties", EmptyDict)
             as_object == dict_set(with_props, "type", <<"null", "object">>)
         IN  ObserveItems(
                 IF IsDict(item)
                 THEN dict_set(as_object, "properties",
                         _observe_record(as_object["properties"], item, depth + 1))
                 ELSE _merge_types(items_schema, _infer_type(PyOf(item))),
                 Tail(items), depth)

RECURSIVE ObserveFields(_, _, _)
ObserveFields(properties, pairs, depth) ==
    IF pairs = <<>> THEN properties
    ELSE ObserveFields(
             ObserveField(properties, Head(pairs).k, Head(pairs).v, depth),
             Tail(pairs), depth)

_observe_record(properties, record, depth) ==
    IF depth > MAX_DENEST_DEPTH THEN properties
    ELSE ObserveFields(properties, record.pairs, depth)

RECURSIVE ObserveRecords(_, _, _)
ObserveRecords(properties, records, count) ==
    IF records = <<>> \/ count >= MAX_RECORDS THEN properties
    ELSE IF ~IsDict(Head(records))
         THEN ObserveRecords(properties, Tail(records), count)
    ELSE ObserveRecords(_observe_record(properties, Head(records), 0),
                        Tail(records), count + 1)

infer_schema_from_records(records) ==
    [type |-> <<"null", "object">>,
     properties |-> ObserveRecords(EmptyDict, records, 0)]

\* f"{parent_key}{separator}{key}" with separator = "__"
Joined(parent_key, key) == parent_key \o "__" \o key

\* json.dumps(value) of a decoded JSON value
RECURSIVE json_dumps(_)
RECURSIVE DumpItems(_)
RECURSIVE DumpPairs(_)
DumpItems(items) ==
    IF items = <<>> THEN ""
    ELSE IF Len(items) = 1 THEN json_dumps(items[1])
    ELSE json_dumps(items[1]) \o ", " \o DumpItems(Tail(items))
DumpPairs(pairs) ==
    IF pairs = <<>> THEN ""
    ELSE LET member == "\"" \o pairs[1].k \o "\": " \o json_dumps(pairs[1].v)
         IN  IF Len(pairs) = 1 THEN member
             ELSE member \o ", " \o DumpPairs(Tail(pairs))
json_dumps(value) ==
    CASE value.t = "null" -> "null"
      [] value.t = "num" -> ToString(value.n)
      [] value.t = "str" -> "\"" \o value.s \o "\""
      [] value.t = "list" -> "[" \o DumpItems(value.items) \o "]"
      [] value.t = "dict" -> "{" \o DumpPairs(value.pairs) \o "}"

\* the str that Python holds for a text
PyStr(text) == JStr(text, Len(text))

RECURSIVE flatten_record(_, _, _)
RECURSIVE FlattenMembers(_, _, _, _)
\* the loop of flatten_record over record.items()
FlattenMembers(items, pairs, parent_key, depth) ==
    IF pairs = <<>> THEN items
    ELSE LET key == Head(pairs).k
             value == Head(pairs).v
             new_key == IF parent_key # "" THEN Joined(parent_key, key) ELSE key
         IN  FlattenMembers(
                 IF IsDict(value)
                 THEN flatten_record(value, new_key, depth + 1) @@ items
                 ELSE IF IsList(value)
                 THEN IF value.items # <<>> /\ IsDict(value.items[1])
                      THEN items
                      ELSE dict_set(items, new_key,
                              IF value.items # <<>>
                              THEN PyStr(json_dumps(value)) ELSE JNull)
                 ELSE dict_set(items, new_key, value),
                 Tail(pairs), parent_key, depth)

flatten_record(record, parent_key, depth) ==
    IF depth > MAX_DENEST_DEPTH THEN EmptyDict
    ELSE FlattenMembers(EmptyDict, record.pairs, parent_key, depth)

\* the test without its last condition
IsArrayOfObjects_without_properties(field_schema) ==
    LET items == dict_get(field_schema, "items", EmptyDict)
    IN  /\ "array" \in Kinds(dict_get(field_schema, "type", <<>>))
        /\ "object" \in Kinds(dict_get(items, "type", <<>>))

\* the field is an array whose items are objects with properties
IsArrayOfObjects(field_schema) ==
    LET items == dict_get(field_schema, "items", EmptyDict)
    IN  /\ "array" \in Kinds(dict_get(field_schema, "type", <<>>))
        /\ "object" \in Kinds(dict_get(items, "type", <<>>))
        /\ NonEmpty(dict_get(items, "properties", EmptyDict))

RECURSIVE flatten_schema(_, _, _)
RECURSIVE FlattenProperties(_, _, _, _, _)
\* the loop of flatten_schema over properties.items(); the properties are
\* visited in an arbitrary order, which matters only when two flattened
\* keys collide
FlattenProperties(flat_properties, properties, keys, parent_key, depth) ==
    IF keys = {} THEN flat_properties
    ELSE LET key == CHOOSE k \in keys : TRUE
             field_schema == properties[key]
             new_key == IF parent_key # "" THEN Joined(parent_key, key) ELSE key
             field_types == Kinds(dict_get(field_schema, "type", <<>>))
         IN  FlattenProperties(
                 IF "object" \in field_types /\ "properties" \in DOMAIN field_schema
                 THEN flatten_schema(field_schema, new_key, depth + 1)
                          @@ flat_properties
                 ELSE IF "array" \in field_types
                 THEN IF IsArrayOfObjects(field_schema)
                      THEN flat_properties
                      ELSE dict_set(flat_properties, new_key, Typed("string"))
                 ELSE dict_set(flat_properties, new_key, field_schema),
                 properties, keys \ {key}, parent_key, depth)

flatten_schema(schema, parent_key, depth) ==
    IF depth > MAX_DENEST_DEPTH THEN EmptyDict
    ELSE LET properties == dict_get(schema, "properties", EmptyDict)
         IN  FlattenProperties(EmptyDict, properties, DOMAIN properties,
                               parent_key, depth)

\* [f"_sdc_source_key_{pk}" for pk in key_properties]
SourceKeys(key_properties) ==
    [i \in 1..Len(key_properties) |-> "_sdc_source_key_" \o key_properties[i]]

\* the child schema that identify_child_streams builds for one array field
child_schema(properties, field_schema, key_properties) ==
    LET item_props == dict_get(field_schema["items"], "properties", EmptyDict)
        fks == [k \in {SourceKeys(key_properties)[i] :
                          i \in 1..Len(key_properties)} |->
                   LET pk == key_properties[
                               CHOOSE i \in 1..Len(key_properties) :
                                   SourceKeys(key_properties)[i] = k]
                   IN  dict_get(properties, pk, Typed("string"))]
    IN  [type |-> <<"null", "object">>,
         properties |->
             item_props @@ ("_sdc_sequence" :> Typed("integer")) @@ fks]

identify_child_streams(schema, stream_name, key_properties) ==
    LET properties == dict_get(schema, "properties", EmptyDict)
        promoted == {f \in DOMAIN properties : IsArrayOfObjects(properties[f])}
    IN  [child_name \in {Joined(stream_name, f) : f \in promoted} |->
            LET field_name == CHOOSE f \in promoted :
                                  Joined(stream_name, f) = child_name
            IN  [parent_stream |-> stream_name,
                 array_key |-> field_name,
                 schema |-> child_schema(properties, properties[field_name],
                                         key_properties),
                 key_properties |->
                     Append(SourceKeys(key_properties), "_sdc_sequence")]]

build_flat_schema(raw_schema, stream_name, key_properties) ==
    [flat_schema |-> [type |-> <<"null", "object">>,
                      properties |-> flatten_schema(raw_schema, "", 0)],
     child_streams |->
         identify_child_streams(raw_schema, stream_name, key_properties)]

\* record.get(key): None when the key is absent
record_get(record, key) == IF KeyIn(key, record) THEN Get(record, key) ELSE JNull

RECURSIVE ParentKeys(_, _)
\* child_record[f"_sdc_source_key_{pk}"] = record.get(pk), for each pk
ParentKeys(record, key_properties) ==
    IF key_properties = <<>> THEN EmptyDict
    ELSE dict_set(ParentKeys(record, SubSeq(key_properties, 1,
                                            Len(key_properties) - 1)),
                  "_sdc_source_key_" \o key_properties[Len(key_properties)],
                  record_get(record, key_properties[Len(key_properties)]))

RECURSIVE ChildRecordsFrom(_, _, _, _)
\* the loop of extract_child_records over enumerate(items), from index idx
ChildRecordsFrom(record, items, idx, key_properties) ==
    IF idx >= Len(items) THEN <<>>
    ELSE LET item == items[idx + 1]
             rest == ChildRecordsFrom(record, items, idx + 1, key_properties)
         IN  IF ~IsDict(item) THEN rest
             ELSE << flatten_record(item, "", 0)
                        @@ ("_sdc_sequence" :> JNum(idx))
                        @@ ParentKeys(record, key_properties) >> \o rest

extract_child_records(record, child_stream_config, key_properties) ==
    LET items == IF KeyIn(child_stream_config.array_key, record)
                 THEN Get(record, child_stream_config.array_key)
                 ELSE JList(<<>>)
    IN  IF ~Truthy(items) \/ ~IsList(items) THEN <<>>
        ELSE ChildRecordsFrom(record, items.items, 0, key_properties)

(***************************************************************************)
(* pagination.py                                                           *)
(***************************************************************************)
MAX_PAGES == 10000

\* pagination._extract_jsonpath: the first match or None
pagination_extract_jsonpath(data, expression) ==
    LET matches == jsonpath_find(data, expression)
    IN  IF matches # <<>> THEN matches[1] ELSE JNull

PAGE_RECORD_KEYS == <<"data", "results", "items", "records", "value", "entries">>

\* the value bound to `records` by the stop check of paginate_page and
\* paginate_offset
stop_check_records(data, records_path) ==
    IF records_path.set
    THEN LET v == pagination_extract_jsonpath(data, records_path)
         IN  IF Truthy(v) THEN v ELSE JList(<<>>)
    ELSE IF IsList(data) THEN data
    ELSE IF IsDict(data)
    THEN LET hits == {i \in 1..Len(PAGE_RECORD_KEYS) :
                         /\ KeyIn(PAGE_RECORD_KEYS[i], data)
                         /\ IsList(Get(data, PAGE_RECORD_KEYS[i]))}
         IN  IF hits # {} THEN Get(data, PAGE_RECORD_KEYS[Min(hits)])
             ELSE JList(<<>>)
    ELSE JList(<<>>)

\* len(records) raises TypeError for a number
HasLen(v) == v.t \in {"list", "dict", "str"}
PyLen(v) ==
    CASE v.t = "list" -> Len(v.items)
      [] v.t = "dict" -> Len(v.pairs)
      [] v.t = "str" -> v.len

(***************************************************************************)
(* Bounds of the model.                                                    *)
(***************************************************************************)
\* a finite fixture serves this many arbitrary pages, then its end page
MaxFixturePages == 3
\* pagination_page_size ranges over 1..MaxPageSize
MaxPageSize == 2
\* pagination_start_page ranges over 0..MaxStartPage
MaxStartPage == 1
\* an array of a fixture page holds up to MaxItems elements
MaxItems == 2
\* a reported total count ranges over 1..MaxTotal
MaxTotal == 4

VARIABLES
    \* --- the paginator under test and its fixture ---
    style,            \* pagination_style
    stream_config,    \* the pagination options of the stream
    fixture,          \* kind "always_more" (serving the page more) or "finite"
    pc,               \* "loop", "done" (StopIteration) or "raised"
    pages_fetched,
    page,             \* page number (page) or offset (offset)
    url,
    params,
    requests,         \* number of requests issued to the transport
    lastReq,          \* the last request issued
    yielded,          \* number of pages yielded
    data,             \* the last page yielded
    links_next,       \* the rel="next" URL of the last response, "" if none
    warned,           \* LOGGER.warning("... Reached max page limit")
    raised,           \* the exception that ended the generator, "" if none
    \* --- what has been observed of the pages served so far ---
    stopLen,          \* len(records) of the last stop check, -1 if none
    firstShortCheck,  \* first page the stop check counted below page_size
    firstTotal,       \* first page at which pages x page_size >= total
    firstNoSignal     \* first page without a continuation signal

pagVars == <<style, stream_config, fixture, pc, pages_fetched, page, url, params,
             requests, lastReq, yielded, data, links_next, warned, raised,
             stopLen,
             firstShortCheck, firstTotal, firstNoSignal>>

VARIABLES
    \* --- one invocation of the tap (main, discover, sync) ---
    mode,             \* "discover", "sync" (catalog given) or "sync_discover"
    config,           \* [start_date, streams]
    catalog,          \* the catalog entries, in order
    state,            \* the state dict of sync: bookmarks, currently_syncing
    input_state,      \* args.state of the first run
    rpc,              \* where the program is
    si,               \* index of the stream being discovered or synced
    net,              \* number of network requests issued in this run
    error,            \* the exception that ended the run, "" if none
    warnings,         \* the warnings logged in this run
    advertised,       \* <<stream, forced-replication-method>> written by discover
    last_state,       \* the value of the last STATE message of this run
    n_state,          \* number of STATE messages of this run
    schema_msgs,      \* number of SCHEMA messages per stream, this run
    record_msgs,      \* number of RECORD messages per stream, this run
    synced,           \* streams whose _sync_parent_stream returned, this run
    \* --- the locals of _sync_parent_stream and its paginator ---
    bookmark_value,
    max_replication_value,
    record_count,
    page_buf,         \* records of the current page not yet written
    pag_fetched,      \* pages_fetched of the stream's paginator
    pag_done,         \* the paginator will yield no further page
    seen,             \* replication values of the records so far (mixed source)
    emitted_pos,      \* position in the source of the last record written
    last_form,        \* "transformed" or "raw": what the last RECORD carried
    \* --- crash and restart ---
    run,              \* 1, or 2 after a restart from the last STATE
    checkpoints,      \* number of checkpoint STATE messages of the first run
    pending           \* a record the crashed run had not written yet

runVars == <<mode, config, catalog, state, input_state, rpc, si, net, error,
             warnings, advertised, last_state, n_state, schema_msgs, record_msgs,
             synced, bookmark_value, max_replication_value, record_count,
             page_buf, pag_fetched, pag_done, seen, emitted_pos, last_form, run,
             checkpoints, pending>>

\* --- a single call of a pure function ---
VARIABLES
    fn,               \* the function called, "" before the call
    args,             \* its arguments
    result            \* what it returned or raised

fnVars == <<fn, args, result>>

vars == <<pagVars, runVars, fnVars>>

STYLES == {"none", "page", "offset", "cursor", "link_header", "jsonpath", "odata"}

\* params is a dict or None
NoParams == [none |-> TRUE, kv |-> <<>>]
Params(kv) == [none |-> FALSE, kv |-> kv]
\* the assignment on a dict that lost the initial params
SetParam_without_initial(ps, name, value) == Params(name :> value)

\* params[name] = value
SetParam(ps, name, value) == Params((name :> value) @@ ps.kv)

\* an HTTP response: the decoded body and the rel="next" URL of its Link
\* header ("" when absent)
Response(body, link) == [body |-> body, link |-> link, ok |-> TRUE]

(***************************************************************************)
(* The fixture pages.                                                      *)
(***************************************************************************)
Rec == JDict(<<Pair("id", JNum(1))>>)
Elems == {Rec, JNum(5)}
ItemSeqs == UNION {[1..n -> Elems] : n \in 0..MaxItems}
Totals == 1..MaxTotal
NextUrls == {"u1", "u2"}

\* bodies served to the page and offset strategies
RecordBodies ==
    {JList(items) : items \in ItemSeqs}
    \cup {JDict(<<Pair(w, JList(items))>>) : w \in {"data", "rows"}, items \in ItemSeqs}
    \cup {JDict(<<Pair("data", JList(items)), Pair("total", JNum(n))>>) :
             items \in ItemSeqs, n \in Totals}
    \cup {JDict(<<Pair("response", JDict(<<Pair("items", JList(items))>>))>>) :
             items \in ItemSeqs}
    \cup {Rec, JDict(<<>>)}

\* the values a continuation field takes: absent is modelled by leaving the
\* member out
SignalValues == {JNull, JStr("", 0)} \cup {JStr(u, 2) : u \in NextUrls}

SignalBodies(field) ==
    {JDict(<<Pair("value", JList(<<Rec>>)), Pair(field, v)>>) : v \in SignalValues}
    \cup {JDict(<<Pair("value", JList(<<Rec>>))>>), JList(<<Rec>>)}

Responses(st) ==
    CASE st \in {"page", "offset"} -> {Response(b, "") : b \in RecordBodies}
      [] st = "cursor" -> {Response(b, "") : b \in SignalBodies("next_cursor")}
      [] st = "jsonpath" -> {Response(b, "") : b \in SignalBodies("next")}
      [] st = "odata" -> {Response(b, "") : b \in SignalBodies("@odata.nextLink")}
      [] st = "link_header" ->
            {Response(JList(<<Rec>>), l) : l \in {""} \cup NextUrls}
      [] st = "none" -> {Response(JList(<<Rec>>), "")}

\* the page a finite fixture serves past its last page
EndResponse == Response(JDict(<<>>), "")

\* the transport raising (retries exhausted) instead of answering
Failure == [body |-> JNull, link |-> "", ok |-> FALSE]

\* the member of an object body, JNull when the body has none
FieldOf(body, name) ==
    IF IsDict(body) /\ KeyIn(name, body) THEN Get(body, name) ELSE JNull

\* the continuation signal a page carries under a strategy (JNull when
\* absent), read off the fixture page
ContinuationSignal(st, resp) ==
    CASE st = "cursor" -> FieldOf(resp.body, "next_cursor")
      [] st = "jsonpath" -> FieldOf(resp.body, "next")
      [] st = "odata" -> FieldOf(resp.body, "@odata.nextLink")
      [] st = "link_header" -> IF resp.link = "" THEN JNull ELSE JStr(resp.link, 2)
      [] OTHER -> JNull

\* a signal that is absent or falsy
NoSignal(v) == v.t = "null" \/ (v.t = "str" /\ v.len = 0)

\* a page that tells the paginator to go on, whatever the page number
SignalsMore(st, cfg, resp) ==
    IF st \in {"page", "offset"}
    THEN LET records == stop_check_records(resp.body, cfg.records_path)
         IN  /\ HasLen(records)
             /\ PyLen(records) >= cfg.pagination_page_size
             /\ Len(extract_records(resp.body, cfg.records_path)) >= cfg.pagination_page_size
             /\ ~(IsDict(resp.body) /\ KeyIn("total", resp.body))
    ELSE ~NoSignal(ContinuationSignal(st, resp))

MoreResponses(st, cfg) == {r \in Responses(st) : SignalsMore(st, cfg, r)}
MoreResponse(st, cfg) == CHOOSE r \in MoreResponses(st, cfg) : TRUE

\* the answer of the fixture to the next request
FixtureResponses ==
    IF fixture.kind = "always_more" THEN {fixture.more}
    ELSE IF requests < MaxFixturePages THEN Responses(style) \cup {Failure}
    ELSE {EndResponse}

(***************************************************************************)
(* The stream configurations.                                              *)
(***************************************************************************)
RecordsPaths == {NoPath, Path(<<"data">>, FALSE), Path(<<"data">>, TRUE)}

DefaultConfig ==
    [pagination_page_size |-> 1,
     pagination_start_page |-> 1,
     pagination_total_path |-> NoPath,
     records_path |-> NoPath,
     pagination_cursor_path |-> Path(<<"next_cursor">>, FALSE),
     pagination_next_path |-> Path(<<"next">>, FALSE),
     pagination_next_is_url |-> TRUE]

Configs(st) ==
    CASE st = "page" ->
            {[DefaultConfig EXCEPT !.pagination_page_size = s,
                                   !.pagination_start_page = p,
                                   !.pagination_total_path = t,
                                   !.records_path = r] :
                s \in 1..MaxPageSize, p \in 0..MaxStartPage,
                t \in {NoPath, Path(<<"total">>, FALSE)}, r \in RecordsPaths}
      [] st = "offset" ->
            {[DefaultConfig EXCEPT !.pagination_page_size = s, !.records_path = r] :
                s \in 1..MaxPageSize, r \in RecordsPaths}
      [] st = "jsonpath" ->
            {[DefaultConfig EXCEPT !.pagination_next_is_url = b] : b \in BOOLEAN}
      [] OTHER -> {DefaultConfig}

\* the static params of the stream, as the caller passes them
StaticParams == Params("q" :> "x")

\* the prologue of a paginator, up to its loop
InitialParams(st, cfg) ==
    CASE st = "page" -> SetParam(StaticParams, "per_page", cfg.pagination_page_size)
      [] st = "offset" -> SetParam(StaticParams, "limit", cfg.pagination_page_size)
      [] OTHER -> StaticParams

PaginatorStart ==
    /\ style \in STYLES
    /\ stream_config \in Configs(style)
    /\ \/ fixture = [kind |-> "finite", more |-> EndResponse]
       \/ /\ style # "none"
          /\ MoreResponses(style, stream_config) # {}
          /\ fixture = [kind |-> "always_more",
                        more |-> MoreResponse(style, stream_config)]
    /\ pc = "loop"
    /\ pages_fetched = 0
    /\ page = IF style = "page" THEN stream_config.pagination_start_page ELSE 0
    /\ url = "u0"
    /\ params = InitialParams(style, stream_config)
    /\ requests = 0
    /\ lastReq = [url |-> "", params |-> NoParams]
    /\ yielded = 0
    /\ data = JNull
    /\ links_next = ""
    /\ warned = FALSE
    /\ raised = ""
    /\ stopLen = -1
    /\ firstShortCheck = 0
    /\ firstTotal = 0
    /\ firstNoSignal = 0

(***************************************************************************)
(* The paginators.  One action is one iteration of the generator's loop:   *)
(* the cap check, the request, the yield and the continuation rule.        *)
(***************************************************************************)
histVars == <<firstShortCheck, firstTotal, firstNoSignal>>

\* the cap check written with >= : one page short
CapReached_off_by_one(n) == n >= MAX_PAGES

\* pages_fetched > MAX_PAGES
CapReached(n) == n > MAX_PAGES

\* LOGGER.warning(...); break
StopAtCap ==
    /\ warned' = TRUE
    /\ pc' = "done"
    /\ UNCHANGED <<page, url, params, requests, lastReq, yielded, data,
                   links_next, raised, stopLen, histVars>>

\* client.request_json(url, params) raises
RequestRaises(u, ps) ==
    /\ requests' = requests + 1
    /\ lastReq' = [url |-> u, params |-> ps]
    /\ pc' = "raised"
    /\ raised' = "TransportError"
    /\ UNCHANGED <<page, url, yielded, data, links_next, warned, stopLen,
                   histVars>>

\* data = client.request_json(url, params); yield data
RequestAndYield(u, ps, resp) ==
    /\ requests' = requests + 1
    /\ lastReq' = [url |-> u, params |-> ps]
    /\ yielded' = yielded + 1
    /\ data' = resp.body
    /\ links_next' = resp.link
    /\ UNCHANGED warned

First(cur, cond, i) == IF cur = 0 /\ cond THEN i ELSE cur

\* what page number i of the fixture looks like to an observer
ObservePage(resp, i) ==
    LET cfg == stream_config
        records == stop_check_records(resp.body, cfg.records_path)
        total == pagination_extract_jsonpath(resp.body, cfg.pagination_total_path)
    IN  /\ firstShortCheck' =
               First(firstShortCheck,
                     HasLen(records) /\ PyLen(records) < cfg.pagination_page_size, i)
        /\ firstTotal' =
               First(firstTotal,
                     /\ style = "page"
                     /\ cfg.pagination_total_path.set
                     /\ total.t = "num"
                     /\ i * cfg.pagination_page_size >= total.n, i)
        /\ UNCHANGED firstNoSignal

ObserveSignal(resp, i) ==
    /\ firstNoSignal' =
           First(firstNoSignal,
                 NoSignal(ContinuationSignal(style, resp)), i)
    /\ UNCHANGED <<firstShortCheck, firstTotal>>

paginate_none ==
    /\ style = "none" /\ pc = "loop"
    /\ \E resp \in FixtureResponses :
          /\ pages_fetched' = pages_fetched + 1
          /\ IF ~resp.ok THEN RequestRaises(url, params) /\ UNCHANGED params
             ELSE /\ RequestAndYield(url, params, resp)
                  /\ pc' = "done"
                  /\ UNCHANGED <<page, url, params, raised, stopLen, histVars>>

\* total and page * page_size >= total
TotalReached(total, pg, page_size) == Truthy(total) /\ pg * page_size >= total.n

\* a paginator that skips every other page
NextPage_skip(pg) == pg + 2

\* page += 1
NextPage(pg) == pg + 1

paginate_page ==
    /\ style = "page" /\ pc = "loop"
    /\ \E resp \in FixtureResponses :
        LET page_size == stream_config.pagination_page_size
            total_path == stream_config.pagination_total_path
            ps == SetParam(params, "page", page)
            records == stop_check_records(resp.body, stream_config.records_path)
            total == pagination_extract_jsonpath(resp.body, total_path)
        IN  /\ pages_fetched' = pages_fetched + 1
            /\ IF CapReached(pages_fetched') THEN StopAtCap
               ELSE IF ~resp.ok THEN RequestRaises(url, ps) /\ params' = ps
               ELSE /\ RequestAndYield(url, ps, resp)
                    /\ params' = ps
                    /\ ObservePage(resp, requests')
                    /\ UNCHANGED url
                    /\ IF ~HasLen(records)
                       THEN /\ pc' = "raised" /\ raised' = "TypeError"
                            /\ stopLen' = -1
                            /\ UNCHANGED page
                       ELSE /\ stopLen' = PyLen(records)
                            /\ UNCHANGED raised
                            /\ IF PyLen(records) < page_size
                               THEN pc' = "done" /\ UNCHANGED page
                               ELSE IF total_path.set
                                       /\ TotalReached(total, page, page_size)
                               THEN pc' = "done" /\ UNCHANGED page
                               ELSE pc' = "loop" /\ page' = NextPage(page)

paginate_offset ==
    /\ style = "offset" /\ pc = "loop"
    /\ \E resp \in FixtureResponses :
        LET page_size == stream_config.pagination_page_size
            ps == SetParam(params, "offset", page)
            records == stop_check_records(resp.body, stream_config.records_path)
        IN  /\ pages_fetched' = pages_fetched + 1
            /\ IF CapReached(pages_fetched') THEN StopAtCap
               ELSE IF ~resp.ok THEN RequestRaises(url, ps) /\ params' = ps
               ELSE /\ RequestAndYield(url, ps, resp)
                    /\ params' = ps
                    /\ ObservePage(resp, requests')
                    /\ UNCHANGED url
                    /\ IF ~HasLen(records)
                       THEN /\ pc' = "raised" /\ raised' = "TypeError"
                            /\ stopLen' = -1
                            /\ UNCHANGED page
                       ELSE /\ stopLen' = PyLen(records)
                            /\ UNCHANGED raised
                            /\ IF PyLen(records) < page_size
                               THEN pc' = "done" /\ UNCHANGED page
                               ELSE pc' = "loop" /\ page' = page + page_size

paginate_cursor ==
    /\ style = "cursor" /\ pc = "loop"
    /\ \E resp \in FixtureResponses :
        LET next_cursor ==
                pagination_extract_jsonpath(resp.body, stream_config.pagination_cursor_path)
        IN  /\ pages_fetched' = pages_fetched + 1
            /\ IF CapReached(pages_fetched') THEN StopAtCap
               ELSE IF ~resp.ok THEN RequestRaises(url, params) /\ UNCHANGED params
               ELSE /\ RequestAndYield(url, params, resp)
                    /\ ObserveSignal(resp, requests')
                    /\ UNCHANGED <<page, url, raised, stopLen>>
                    /\ IF ~Truthy(next_cursor)
                       THEN pc' = "done" /\ UNCHANGED params
                       ELSE pc' = "loop"
                            /\ params' = SetParam(params, "cursor", next_cursor.s)

paginate_link_header ==
    /\ style = "link_header" /\ pc = "loop"
    /\ \E resp \in FixtureResponses :
        LET next_url == resp.link
        IN  /\ pages_fetched' = pages_fetched + 1
            /\ IF CapReached(pages_fetched') THEN StopAtCap
               ELSE IF ~resp.ok THEN RequestRaises(url, params) /\ UNCHANGED params
               ELSE /\ RequestAndYield(url, params, resp)
                    /\ ObserveSignal(resp, requests')
                    /\ UNCHANGED <<page, raised, stopLen>>
                    /\ IF next_url = ""
                       THEN pc' = "done" /\ UNCHANGED <<url, params>>
                       ELSE pc' = "loop" /\ url' = next_url /\ params' = NoParams

paginate_jsonpath ==
    /\ style = "jsonpath" /\ pc = "loop"
    /\ \E resp \in FixtureResponses :
        LET next_value ==
                pagination_extract_jsonpath(resp.body, stream_config.pagination_next_path)
        IN  /\ pages_fetched' = pages_fetched + 1
            /\ IF CapReached(pages_fetched') THEN StopAtCap
               ELSE IF ~resp.ok THEN RequestRaises(url, params) /\ UNCHANGED params
               ELSE /\ RequestAndYield(url, params, resp)
                    /\ ObserveSignal(resp, requests')
                    /\ UNCHANGED <<page, raised, stopLen>>
                    /\ IF ~Truthy(next_value)
                       THEN pc' = "done" /\ UNCHANGED <<url, params>>
                       ELSE IF stream_config.pagination_next_is_url
                       THEN pc' = "loop" /\ url' = next_value.s /\ params' = NoParams
                       ELSE pc' = "loop" /\ UNCHANGED url
                            /\ params' = SetParam(params, "cursor", next_value.s)

paginate_odata ==
    /\ style = "odata" /\ pc = "loop"
    /\ \E resp \in FixtureResponses :
        LET next_link == IF KeyIn("@odata.nextLink", resp.body)
                         THEN Get(resp.body, "@odata.nextLink") ELSE JNull
        IN  /\ pages_fetched' = pages_fetched + 1
            /\ IF CapReached(pages_fetched') THEN StopAtCap
               ELSE IF ~resp.ok THEN RequestRaises(url, params) /\ UNCHANGED params
               ELSE /\ RequestAndYield(url, params, resp)
                    /\ ObserveSignal(resp, requests')
                    /\ UNCHANGED <<page, stopLen>>
                    /\ IF ~IsDict(resp.body)
                       THEN \* data.get on a list: AttributeError
                            /\ pc' = "raised" /\ raised' = "AttributeError"
                            /\ UNCHANGED <<url, params>>
                       ELSE /\ UNCHANGED raised
                            /\ IF ~Truthy(next_link)
                               THEN pc' = "done" /\ UNCHANGED <<url, params>>
                               ELSE pc' = "loop" /\ url' = next_link.s
                                    /\ params' = NoParams

cfgVars == <<style, stream_config, fixture, runVars, fnVars>>

NextPaginator ==
    \/ paginate_none /\ UNCHANGED cfgVars
    \/ paginate_page /\ UNCHANGED cfgVars
    \/ paginate_offset /\ UNCHANGED cfgVars
    \/ paginate_cursor /\ UNCHANGED cfgVars
    \/ paginate_link_header /\ UNCHANGED cfgVars
    \/ paginate_jsonpath /\ UNCHANGED cfgVars
    \/ paginate_odata /\ UNCHANGED cfgVars


(***************************************************************************)
(* The tap: __init__.py (main), discover.py and sync.py.                   *)
(***************************************************************************)
\* at most MaxStreams streams are configured
MaxStreams == 2
\* the sources of a run hold the first MaxValue replication values of
\* RepValues; a value is named by its index, 0 stands for None / absent
MaxValue == 2
\* a page of a short source holds up to MaxRecsPerPage records
MaxRecsPerPage == 2
\* a short source serves up to MaxRunPages pages
MaxRunPages == 2
\* a source of mixed formats serves up to MaxMixedPages pages of one record
MaxMixedPages == 3

\* sync.py: if record_count % 10000 == 0
CHECKPOINT_INTERVAL == 10000

StreamNames == <<"a", "b", "c">>
Values == 1..MaxValue

\* stream_config.get("replication_method", "FULL_TABLE")
StreamConfig(name, st, key, method, schema) ==
    [name |-> name, pagination_style |-> st, replication_key |-> key,
     replication_method |-> method, schema |-> schema]

State(bookmarks, cs) == [bookmarks |-> bookmarks, currently_syncing |-> cs]
NoBookmarks == [n \in {} |-> 0]

\* bookmarks.get_bookmark(state, stream, key): 0 when there is none
get_bookmark(st, name) ==
    IF name \in DOMAIN st.bookmarks THEN st.bookmarks[name] ELSE 0

\* a write_bookmark that leaves the state as it was
write_bookmark_dropped(st, name, value) == st

\* bookmarks.write_bookmark(state, stream, key, value)
write_bookmark(st, name, value) ==
    [st EXCEPT !.bookmarks = (name :> value) @@ st.bookmarks]

\* the replication values a source can hold, as the strings the records
\* carry them. dt says whether dateutil parses the string and whether the
\* result carries a time zone, t is the parsed instant (days of 2024), num
\* the result of float() when it succeeds, lex the rank of the string in
\* lexical order:
\*   "01/06/2024" < "100" < "20" < "2024-01-01" < "2024-01-01T00:00:00Z"
\*     < "2024-01-02" < "2024-01-03T00:00:00Z" < "2024-01-05"
\*     < "2024-02-01T00:00:00Z" < "3000000" < "99999" < "x"
\* dateutil reads "100" as the year 100 and "20" as the 20th of the month of
\* the run (a run of November 2026 here), and rejects "99999", "3000000"
\* and "x".
RepValue(text, dt, t, isnum, num, lex) ==
    [text |-> text, dt |-> dt, t |-> t, isnum |-> isnum, num |-> num, lex |-> lex]

RepValues ==
    << RepValue("2024-01-01", "naive", 1, FALSE, 0, 4),
       RepValue("2024-01-02", "naive", 2, FALSE, 0, 6),
       RepValue("2024-01-05", "naive", 5, FALSE, 0, 8),
       RepValue("01/06/2024", "naive", 6, FALSE, 0, 1),
       RepValue("2024-01-03T00:00:00Z", "aware", 3, FALSE, 0, 7),
       RepValue("100", "naive", -702000, TRUE, 100, 2),
       RepValue("20", "naive", 1055, TRUE, 20, 3),
       RepValue("2024-02-01T00:00:00Z", "aware", 32, FALSE, 0, 9),
       RepValue("2024-01-01T00:00:00Z", "aware", 1, FALSE, 0, 5),
       RepValue("99999", "none", 0, TRUE, 99999, 11),
       RepValue("3000000", "none", 0, TRUE, 3000000, 10),
       RepValue("x", "none", 0, FALSE, 0, 12) >>

\* the date values of the table, which the sources of the runs hold
AllValues == {i \in 1..Len(RepValues) : RepValues[i].lex \in {1, 4, 6, 7, 8}}

\* _compare_replication_values: None is the oldest; two values that both
\* parse as datetimes compare as instants unless one carries a time zone and
\* the other does not (TypeError); otherwise they compare as floats when both
\* convert; otherwise as strings
_compare_replication_values(value_a, value_b) ==
    IF value_a = 0 THEN FALSE
    ELSE IF value_b = 0 THEN TRUE
    ELSE LET a == RepValues[value_a]
             b == RepValues[value_b]
         IN  IF a.dt # "none" /\ b.dt # "none" /\ a.dt = b.dt THEN a.t > b.t
             ELSE IF a.isnum /\ b.isnum THEN a.num > b.num
             ELSE a.lex > b.lex

\* a record of a source: its replication value (0 when it has none), whether
\* it is the record followed across a crash, the key of its array of objects,
\* its position among the records of the stream's pages and whether the
\* schema transform accepts it
Record(v, tracked) ==
    [v |-> v, tracked |-> tracked, arr |-> <<>>, pos |-> 0, conforms |-> TRUE]

\* a record that holds an array of one object under the key arr, and that
\* conforms to the schema of its stream or not
NestedRecord(arr, conforms) ==
    [v |-> 0, tracked |-> FALSE, arr |-> arr, pos |-> 0, conforms |-> conforms]

\* the record followed across a crash: v = 0 when there is none
NoPending == [v |-> 0, emitted |-> FALSE]

\* the stream names of configs and catalogs, with their characters; "z" is
\* never configured
NameChars ==
    ("a" :> <<"a">>) @@ ("b" :> <<"b">>) @@ ("c" :> <<"c">>) @@ ("z" :> <<"z">>) @@
    ("a_" :> <<"a", "_">>) @@
    ("a__x" :> <<"a", "_", "_", "x">>) @@
    ("a___x" :> <<"a", "_", "_", "_", "x">>)

AllNames == DOMAIN NameChars

\* DENEST_SEPARATOR = "__"
DENEST_SEPARATOR == <<"_", "_">>

\* "__" in name
HasSeparator(name) ==
    \E i \in 1..(Len(NameChars[name]) - 1) :
        SubSeq(NameChars[name], i, i + 1) = DENEST_SEPARATOR

\* child_name.startswith(f"{stream_name}__")
ChildOf(child_name, stream_name) ==
    LET prefix == NameChars[stream_name] \o DENEST_SEPARATOR
    IN  /\ Len(prefix) <= Len(NameChars[child_name])
        /\ SubSeq(NameChars[child_name], 1, Len(prefix)) = prefix

\* array_key = child_name[len(stream_name) + 2:]
array_key(child_name, stream_name) ==
    SubSeq(NameChars[child_name], Len(NameChars[stream_name]) + 3,
           Len(NameChars[child_name]))

\* stream_name.split("__")[0]
parent_name(stream_name) ==
    LET cs == NameChars[stream_name]
        first == Min({ i \in 1..(Len(cs) - 1) : SubSeq(cs, i, i + 1) = DENEST_SEPARATOR })
    IN  SubSeq(cs, 1, first - 1)

\* counters of messages per stream
NoMsgs == [n \in AllNames |-> 0]

\* the locals of _sync_parent_stream before a stream is entered
IdleStream ==
    /\ bookmark_value = 0
    /\ max_replication_value = 0
    /\ record_count = 0
    /\ page_buf = <<>>
    /\ pag_fetched = 0
    /\ pag_done = FALSE
    /\ seen = {}
    /\ emitted_pos = 0
    /\ last_form = "none"

streamVars == <<bookmark_value, max_replication_value, record_count, page_buf,
                pag_fetched, pag_done, seen, emitted_pos, last_form>>
outVars == <<last_state, n_state, schema_msgs, record_msgs>>

\* a process that has emitted nothing yet
FreshRun ==
    /\ net = 0
    /\ error = ""
    /\ warnings = {}
    /\ advertised = {}
    /\ last_state = State(NoBookmarks, "")
    /\ n_state = 0
    /\ schema_msgs = NoMsgs
    /\ record_msgs = NoMsgs
    /\ synced = {}
    /\ si = 1
    /\ IdleStream

\* the run variables while only a paginator is exercised
IdleRun ==
    /\ mode = "none"
    /\ config = [start_date |-> 0, streams |-> <<>>, long |-> FALSE, mixed |-> FALSE,
                 nested |-> FALSE]
    /\ catalog = <<>>
    /\ state = State(NoBookmarks, "")
    /\ input_state = State(NoBookmarks, "")
    /\ rpc = "idle"
    /\ run = 1
    /\ checkpoints = 0
    /\ pending = NoPending
    /\ FreshRun

\* no pure function is called on its own
NoCall == [none |-> TRUE]
IdleCall ==
    /\ fn = ""
    /\ args = NoCall
    /\ result = NoCall

\* the paginator variables while the tap is exercised
IdlePaginator ==
    /\ style = "none"
    /\ stream_config = DefaultConfig
    /\ fixture = [kind |-> "finite", more |-> EndResponse]
    /\ pc = "idle"
    /\ pages_fetched = 0
    /\ page = 0
    /\ url = ""
    /\ params = NoParams
    /\ requests = 0
    /\ lastReq = [url |-> "", params |-> NoParams]
    /\ yielded = 0
    /\ data = JNull
    /\ links_next = ""
    /\ warned = FALSE
    /\ raised = ""
    /\ stopLen = -1
    /\ firstShortCheck = 0
    /\ firstTotal = 0
    /\ firstNoSignal = 0


(***************************************************************************)
(* Properties of the pagination engine.                                    *)
(***************************************************************************)
SignalStyles == {"cursor", "link_header", "jsonpath", "odata"}

\* C1: against a fixture that signals "more" on every page, every strategy
\* issues exactly MAX_PAGES requests, yields exactly MAX_PAGES pages and ends
\* with a warning and no exception; no strategy yields more than MAX_PAGES
\* pages.
C1_CapStopsAtMaxPages ==
    /\ yielded <= MAX_PAGES
    /\ requests <= MAX_PAGES
    /\ fixture.kind = "always_more" =>
          /\ raised = ""
          /\ pc = "loop" => requests = pages_fetched /\ pages_fetched <= MAX_PAGES
          /\ pc # "loop" =>
                /\ pc = "done"
                /\ warned
                /\ requests = MAX_PAGES
                /\ yielded = MAX_PAGES

C1_Witness ==
    /\ fixture.kind = "always_more"
    /\ style = "cursor"
    /\ pc = "done"
    /\ warned
    /\ yielded = MAX_PAGES

\* C2: for page and offset, the record count of the stop check equals the
\* number of records extract_records returns for the same page, so the
\* paginator goes on after a page only if the extractor finds at least
\* page_size records in it.
C2_StopCheckCountsExtractedRecords ==
    (style \in {"page", "offset"} /\ yielded > 0) =>
        /\ stopLen = Len(extract_records(data, stream_config.records_path))
        /\ pc = "loop" =>
              Len(extract_records(data, stream_config.records_path))
                  >= stream_config.pagination_page_size

C5_NoRequestAfterTotalReached ==
    (style = "page" /\ stream_config.pagination_total_path.set) =>
        (firstTotal # 0 => requests = firstTotal)

(***************************************************************************)
(* Configurations, catalogs and sources of a run.                          *)
(***************************************************************************)
Config(start_date, streams, long) ==
    [start_date |-> start_date, streams |-> streams, long |-> long, mixed |-> FALSE,
     nested |-> FALSE]

\* a configuration whose source mixes the formats of its replication values
MixedConfig(start_date, streams) ==
    [start_date |-> start_date, streams |-> streams, long |-> FALSE, mixed |-> TRUE,
     nested |-> FALSE]

\* a configuration whose source holds records with arrays of objects
NestedConfig(streams) ==
    [start_date |-> 0, streams |-> streams, long |-> FALSE, mixed |-> FALSE,
     nested |-> TRUE]

\* a catalog entry: tap_stream_id, the "selected" metadata and the
\* forced-replication-method metadata
CatalogEntry(name, selected, method) ==
    [name |-> name, selected |-> selected, method |-> method]

RunStyles == {"none", "cursor", "bogus"}
ReplicationKeys == {"", "updated_at"}
ReplicationMethods == {"FULL_TABLE", "INCREMENTAL"}

\* the configurations of the stream called name; schema says whether a
\* static schema is configured
StreamConfigs(name, styles, schemas) ==
    { StreamConfig(name, st, key, method, schema) :
        st \in styles, key \in ReplicationKeys, method \in ReplicationMethods,
        schema \in schemas }

RECURSIVE StreamLists(_, _, _)
StreamLists(n, styles, schemas) ==
    IF n = 0 THEN {<<>>}
    ELSE { Append(l, sc) : l \in StreamLists(n - 1, styles, schemas),
                           sc \in StreamConfigs(StreamNames[n], styles, schemas) }

\* the catalogs a user hands to a sync of the configured streams: every
\* selection of the streams, and one that names an unconfigured stream first
RECURSIVE Selections(_)
Selections(streams) ==
    IF streams = <<>> THEN {<<>>}
    ELSE LET last == streams[Len(streams)]
         IN  { Append(c, CatalogEntry(last.name, sel, last.replication_method)) :
                 c \in Selections(SubSeq(streams, 1, Len(streams) - 1)),
                 sel \in BOOLEAN }

GivenCatalogs(streams) ==
    Selections(streams) \cup
    { <<CatalogEntry("z", TRUE, "FULL_TABLE")>> \o c :
        c \in { d \in Selections(streams) : \A i \in 1..Len(d) : d[i].selected } }

\* the pages a short source can serve
RECURSIVE RecordSeqs(_)
RecordSeqs(n) ==
    IF n = 0 THEN {<<>>}
    ELSE RecordSeqs(n - 1) \cup
         { Append(q, Record(v, FALSE)) :
             q \in { r \in RecordSeqs(n - 1) : Len(r) = n - 1 }, v \in 0..MaxValue }

\* the keys under which the records of a nested source hold an array
ArrayKeys == {<<>>, <<"x">>, <<"_", "x">>}

\* the pages of a nested source: up to MaxRecsPerPage records
NestedPages ==
    UNION { [1..n -> {NestedRecord(k, c) : k \in ArrayKeys, c \in BOOLEAN}] :
              n \in 0..MaxRecsPerPage }

\* the pages of a long source: always full, every record with a value
LongPages ==
    { q \in [1..MaxRecsPerPage -> {Record(v, FALSE) : v \in Values}] : TRUE }

(***************************************************************************)
(* __init__.py: main, and discover.py: discover.                           *)
(***************************************************************************)
\* singer.write_state(value)
write_state(value) ==
    /\ last_state' = value
    /\ n_state' = n_state + 1

\* main: args.discover, args.catalog
main ==
    /\ rpc = "main"
    /\ si' = 1
    /\ rpc' = IF mode = "sync" THEN "sync" ELSE "discover"
    /\ UNCHANGED <<pagVars, fnVars, mode, config, catalog, state, input_state, net, error,
                   warnings, advertised, outVars, synced, streamVars, run,
                   checkpoints, pending>>

\* discover: if replication_key and replication_method == "FULL_TABLE"
discovered_method(sc) ==
    IF sc.replication_key # "" /\ sc.replication_method = "FULL_TABLE"
    THEN "INCREMENTAL" ELSE sc.replication_method

\* _fetch_sample_records inside the try of discover: the number of
\* requests it issues; get_paginator raises before any request, a
\* transport error ends the sampling, both are caught by discover
SampleRequests(sc) ==
    IF sc.schema \/ sc.pagination_style \notin STYLES THEN {0}
    ELSE IF sc.pagination_style = "none" THEN {1}
    ELSE 1..MaxRunPages

\* one iteration of the loop of discover over config["streams"]
DiscoverStream ==
    /\ rpc = "discover"
    /\ si <= Len(config.streams)
    /\ LET sc == config.streams[si]
       IN  /\ \E k \in SampleRequests(sc) : net' = net + k
           /\ catalog' = Append(catalog,
                                CatalogEntry(sc.name, TRUE, discovered_method(sc)))
           /\ advertised' = advertised \cup {<<sc.name, discovered_method(sc)>>}
    /\ si' = si + 1
    /\ UNCHANGED <<pagVars, fnVars, mode, config, state, input_state, rpc, error, warnings,
                   outVars, synced, streamVars, run, checkpoints, pending>>

\* the end of discover: main dumps the catalog, or goes on to sync
DiscoverEnd ==
    /\ rpc = "discover"
    /\ si > Len(config.streams)
    /\ rpc' = IF mode = "discover" THEN "done" ELSE "sync"
    /\ si' = 1
    /\ UNCHANGED <<pagVars, fnVars, mode, config, catalog, state, input_state, net, error,
                   warnings, advertised, outVars, synced, streamVars, run,
                   checkpoints, pending>>

(***************************************************************************)
(* sync.py: sync and _sync_parent_stream.                                  *)
(***************************************************************************)
\* _get_selected_streams(catalog)
_get_selected_streams(cat) == SelectSeq(cat, LAMBDA e : e.selected)

\* _find_stream_config(config, stream_name): the index of the first stream
\* of the config with that name, 0 for None
_find_stream_config(cfg, stream_name) ==
    LET hits == { i \in 1..Len(cfg.streams) : cfg.streams[i].name = stream_name }
        parents == IF HasSeparator(stream_name)
                   THEN { i \in 1..Len(cfg.streams) :
                            NameChars[cfg.streams[i].name] = parent_name(stream_name) }
                   ELSE {}
    IN  IF hits # {} THEN Min(hits)
        ELSE IF parents # {} THEN Min(parents)
        ELSE 0

\* the parent streams of sync: the selected entries whose name holds no "__"
parent_streams(cat) ==
    SelectSeq(_get_selected_streams(cat), LAMBDA e : ~HasSeparator(e.name))

\* singer.set_currently_syncing(state, stream_name)
set_currently_syncing(st, stream_name) ==
    [st EXCEPT !.currently_syncing = stream_name]

\* the stream config of the entry being synced
CurrentEntry == parent_streams(catalog)[si]
CurrentConfig == config.streams[_find_stream_config(config, CurrentEntry.name)]

\* the keys of child_streams_config: the selected entries named as children
\* of the stream
child_streams_config(cat, stream_name) ==
    LET sel == _get_selected_streams(cat)
    IN  { sel[i].name : i \in { j \in 1..Len(sel) : ChildOf(sel[j].name, stream_name) } }

\* len(extract_child_records(record, child_config, key_properties)) for the
\* records of the sources: one child record when the record holds its array
\* under the child's array_key
child_count(record, child_name, stream_name) ==
    IF record.arr # <<>> /\ record.arr = array_key(child_name, stream_name)
    THEN 1 ELSE 0

\* the starting bookmark of _sync_parent_stream: the stored bookmark or the
\* start_date for an INCREMENTAL stream with a key, None otherwise
starting_bookmark(sc, st, cfg) ==
    IF sc.replication_method = "INCREMENTAL" /\ sc.replication_key # ""
    THEN IF get_bookmark(st, sc.name) # 0 THEN get_bookmark(st, sc.name)
         ELSE cfg.start_date
    ELSE 0

\* sync up to the loop over the parent streams
SyncBegin ==
    /\ rpc = "sync"
    /\ rpc' = IF _get_selected_streams(catalog) = <<>> THEN "done" ELSE "stream"
    /\ si' = 1
    /\ UNCHANGED <<pagVars, fnVars, mode, config, catalog, state, input_state, net, error,
                   warnings, advertised, outVars, synced, streamVars, run,
                   checkpoints, pending>>

\* one iteration of the loop of sync up to the first page request of
\* _sync_parent_stream
StreamBegin ==
    /\ rpc = "stream"
    /\ si <= Len(parent_streams(catalog))
    /\ IF _find_stream_config(config, CurrentEntry.name) = 0
       THEN /\ si' = si + 1
            /\ warnings' = warnings \cup {<<"no config", CurrentEntry.name>>}
            /\ UNCHANGED <<state, rpc, error, outVars, streamVars>>
       ELSE LET sc == CurrentConfig
                marked == set_currently_syncing(state, sc.name)
            IN  /\ warnings' =
                     IF sc.replication_key # "" /\ sc.replication_method = "FULL_TABLE"
                     THEN warnings \cup {<<"key with FULL_TABLE", sc.name>>}
                     ELSE warnings
                /\ state' = marked
                /\ write_state(marked)
                /\ schema_msgs' =
                     [n \in AllNames |->
                        schema_msgs[n]
                        + (IF n = sc.name THEN 1 ELSE 0)
                        + (IF sc.pagination_style \in STYLES
                              /\ n \in child_streams_config(catalog, sc.name)
                           THEN 1 ELSE 0)]
                /\ bookmark_value' = starting_bookmark(sc, state, config)
                /\ max_replication_value' = starting_bookmark(sc, state, config)
                /\ IF sc.pagination_style \in STYLES
                   THEN rpc' = "paging" /\ error' = error
                   ELSE rpc' = "failed" /\ error' = "config"
                /\ UNCHANGED <<si, record_msgs, record_count, page_buf,
                               pag_fetched, pag_done, seen, emitted_pos,
                               last_form>>
    /\ UNCHANGED <<pagVars, fnVars, mode, config, catalog, input_state, net, advertised,
                   synced, run, checkpoints, pending>>

\* whether the source still holds the record followed across the crash:
\* the restarted run asks for the records at or after its bookmark
ServesPending ==
    /\ run = 2
    /\ pending.v # 0
    /\ bookmark_value = 0 \/ pending.v >= bookmark_value

\* the pages the source can answer the next request with, and whether the
\* response signals a further page
SourcePages ==
    IF run = 2
    THEN { [records |-> IF ServesPending THEN <<Record(pending.v, TRUE)>> ELSE <<>>,
            more |-> FALSE] }
    ELSE IF config.long
    THEN { [records |-> q, more |-> TRUE] : q \in LongPages }
    ELSE IF config.nested
    THEN { [records |-> q, more |-> FALSE] : q \in NestedPages }
    ELSE IF config.mixed
    THEN { [records |-> <<Record(v, FALSE)>>, more |-> m] :
             v \in AllValues,
             m \in IF pag_fetched + 1 < MaxMixedPages THEN BOOLEAN ELSE {FALSE} }
    ELSE { [records |-> q, more |-> m] :
             q \in RecordSeqs(MaxRecsPerPage),
             m \in IF pag_fetched + 1 < MaxRunPages THEN BOOLEAN ELSE {FALSE} }

\* the records of a page as the loop of _sync_parent_stream receives them:
\* in the order of the page, after the count records of the earlier pages
Numbered(records, count) ==
    [i \in 1..Len(records) |-> [records[i] EXCEPT !.pos = count + i]]

\* the paginator of the stream asked for its next page: the cap, the
\* request, and the page yielded to the loop of _sync_parent_stream
FetchPage ==
    /\ rpc = "paging"
    /\ page_buf = <<>>
    /\ ~pag_done
    /\ pag_fetched' = pag_fetched + 1
    /\ IF CurrentConfig.pagination_style # "none" /\ CapReached(pag_fetched + 1)
       THEN /\ pag_done' = TRUE
            /\ UNCHANGED <<net, page_buf, rpc, error>>
       ELSE /\ net' = net + 1
            /\ \/ \E pg \in SourcePages :
                    /\ page_buf' = Numbered(pg.records, record_count)
                    /\ pag_done' = (CurrentConfig.pagination_style = "none" \/ ~pg.more)
                    /\ UNCHANGED <<rpc, error>>
               \/ /\ rpc' = "failed"
                  /\ error' = "transport"
                  /\ UNCHANGED <<page_buf, pag_done>>
    /\ UNCHANGED <<pagVars, fnVars, mode, config, catalog, state, input_state, si, warnings,
                   advertised, outVars, synced, bookmark_value,
                   max_replication_value, record_count, seen, emitted_pos,
                   last_form, run, checkpoints, pending>>

\* a transform whose failure goes unnoticed
written_form_transformed(record) == "transformed"

\* try: transformed = transformer.transform(...) except Exception:
\* transformed = flat_record; what write_record is given
written_form(record) == IF record.conforms THEN "transformed" ELSE "raw"

\* a loop that takes the last record of the page first
next_record_last(records) == records[Len(records)]

\* for record in raw_records: the record the loop takes next
next_record(records) == Head(records)

\* the max_replication_value after a record with replication value rep_value
track_max(sc, rep_value, cur) ==
    IF sc.replication_key # "" /\ rep_value # 0
          /\ _compare_replication_values(rep_value, cur)
    THEN rep_value ELSE cur

\* the body of the record loop of _sync_parent_stream for one record
SyncRecord ==
    /\ rpc = "paging"
    /\ page_buf # <<>>
    /\ LET sc == CurrentConfig
           record == next_record(page_buf)
           newmax == track_max(sc, record.v, max_replication_value)
           checkpoint == /\ (record_count + 1) % CHECKPOINT_INTERVAL = 0
                         /\ newmax # 0
                         /\ sc.replication_key # ""
       IN  /\ page_buf' = Tail(page_buf)
           /\ emitted_pos' = record.pos
           /\ last_form' = written_form(record)
           /\ record_msgs' =
                IF record.arr = <<>>
                THEN [record_msgs EXCEPT ![sc.name] = @ + 1]
                ELSE [n \in AllNames |->
                        record_msgs[n]
                        + (IF n = sc.name THEN 1 ELSE 0)
                        + (IF n \in child_streams_config(catalog, sc.name)
                           THEN child_count(record, n, sc.name) ELSE 0)]
           /\ record_count' = record_count + 1
           /\ pending' = IF record.tracked THEN [pending EXCEPT !.emitted = TRUE]
                         ELSE pending
           /\ max_replication_value' = newmax
           /\ seen' = IF config.mixed /\ record.v # 0 THEN seen \cup {record.v}
                      ELSE seen
           /\ IF checkpoint
              THEN /\ state' = write_bookmark(state, sc.name, newmax)
                   /\ write_state(write_bookmark(state, sc.name, newmax))
                   /\ checkpoints' = IF run = 1 THEN checkpoints + 1 ELSE checkpoints
              ELSE UNCHANGED <<state, last_state, n_state, checkpoints>>
    /\ UNCHANGED <<pagVars, fnVars, mode, config, catalog, input_state, rpc, si, net, error,
                   warnings, advertised, schema_msgs, synced, bookmark_value,
                   pag_fetched, pag_done, run>>

\* the end of _sync_parent_stream and of the iteration of the loop of sync
StreamEnd ==
    /\ rpc = "paging"
    /\ page_buf = <<>>
    /\ pag_done
    /\ LET sc == CurrentConfig
           final == IF sc.replication_key # "" /\ max_replication_value # 0
                    THEN write_bookmark(state, sc.name, max_replication_value)
                    ELSE state
       IN  /\ state' = final
           /\ write_state(final)
           /\ synced' = synced \cup {sc.name}
    /\ si' = si + 1
    /\ rpc' = "stream"
    /\ bookmark_value' = 0
    /\ max_replication_value' = 0
    /\ record_count' = 0
    /\ pag_fetched' = 0
    /\ pag_done' = FALSE
    /\ seen' = {}
    /\ emitted_pos' = 0
    /\ last_form' = "none"
    /\ UNCHANGED <<pagVars, fnVars, mode, config, catalog, input_state, net, error, warnings,
                   advertised, schema_msgs, record_msgs, page_buf, run,
                   checkpoints, pending>>

\* sync after the loop: currently_syncing cleared, the final STATE
SyncEnd ==
    /\ rpc = "stream"
    /\ si > Len(parent_streams(catalog))
    /\ state' = set_currently_syncing(state, "")
    /\ write_state(set_currently_syncing(state, ""))
    /\ rpc' = "done"
    /\ UNCHANGED <<pagVars, fnVars, mode, config, catalog, input_state, si, net, error,
                   warnings, advertised, schema_msgs, record_msgs, synced,
                   streamVars, run, checkpoints, pending>>

\* the records of the source the running sync has not written yet: those of
\* the current page, and any record of a page not yet served
Unwritten ==
    { page_buf[i].v : i \in 1..Len(page_buf) } \cup
    (IF pag_done THEN {} ELSE Values)

\* the process is killed while a stream is synced, after at least one STATE,
\* and the tap is started again with the last emitted STATE as its state;
\* nothing else of the first run survives
CrashRestart ==
    /\ run = 1
    /\ rpc = "paging"
    /\ n_state > 0
    /\ \E v \in (Unwritten \ {0}) \cup {0} : pending' = [v |-> v, emitted |-> FALSE]
    /\ run' = 2
    /\ input_state' = last_state
    /\ state' = last_state
    /\ rpc' = "sync"
    /\ si' = 1
    /\ net' = 0
    /\ error' = ""
    /\ warnings' = {}
    /\ last_state' = State(NoBookmarks, "")
    /\ n_state' = 0
    /\ schema_msgs' = NoMsgs
    /\ record_msgs' = NoMsgs
    /\ synced' = {}
    /\ bookmark_value' = 0
    /\ max_replication_value' = 0
    /\ record_count' = 0
    /\ page_buf' = <<>>
    /\ pag_fetched' = 0
    /\ pag_done' = FALSE
    /\ seen' = {}
    /\ emitted_pos' = 0
    /\ last_form' = "none"
    /\ UNCHANGED <<pagVars, fnVars, mode, config, catalog, advertised, checkpoints>>

(***************************************************************************)
(* The runs of the tap.                                                    *)
(***************************************************************************)
Modes == {"discover", "sync", "sync_discover"}

\* a run of the tap over one to MaxStreams streams with short sources
InitRun ==
    /\ IdlePaginator
    /\ IdleCall
    /\ mode \in Modes
    /\ \E n \in 1..MaxStreams, schemas \in {{TRUE}, {FALSE}} :
          \E l \in StreamLists(n, RunStyles, schemas) : config = Config(0, l, FALSE)
    /\ catalog \in IF mode = "sync" THEN GivenCatalogs(config.streams) ELSE {<<>>}
    /\ input_state = State(NoBookmarks, "")
    /\ state = input_state
    /\ rpc = "main"
    /\ run = 1
    /\ checkpoints = 0
    /\ pending = NoPending
    /\ FreshRun

NextRun ==
    \/ main
    \/ DiscoverStream
    \/ DiscoverEnd
    \/ SyncBegin
    \/ StreamBegin
    \/ FetchPage
    \/ SyncRecord
    \/ StreamEnd
    \/ SyncEnd

SpecRun == InitRun /\ [][NextRun]_vars

\* a sync of one selected stream from a given state, over a short source or a
\* long one, which may be killed and restarted once
InitSync ==
    /\ IdlePaginator
    /\ IdleCall
    /\ mode = "sync"
    /\ \E sc \in StreamConfigs("a", {"none", "cursor"}, {TRUE}) :
          \/ \E d \in {0, 1} : config = Config(d, <<sc>>, FALSE)
          \/ sc.pagination_style = "cursor" /\ config = Config(0, <<sc>>, TRUE)
    /\ catalog = <<CatalogEntry("a", TRUE, config.streams[1].replication_method)>>
    /\ \E b \in 0..MaxValue :
          /\ config.long => b = 0
          /\ input_state = State(IF b = 0 THEN NoBookmarks ELSE ("a" :> b), "")
    /\ state = input_state
    /\ rpc = "sync"
    /\ run = 1
    /\ checkpoints = 0
    /\ pending = NoPending
    /\ FreshRun

NextSync ==
    \/ SyncBegin
    \/ StreamBegin
    \/ FetchPage
    \/ SyncRecord
    \/ StreamEnd
    \/ SyncEnd
    \/ CrashRestart

SpecSync == InitSync /\ [][NextSync]_vars

\* a sync of one selected stream whose source mixes the formats of its
\* replication values, one record per page
InitTrack ==
    /\ IdlePaginator
    /\ IdleCall
    /\ mode = "sync"
    /\ \E sc \in StreamConfigs("a", {"cursor"}, {TRUE}) : config = MixedConfig(0, <<sc>>)
    /\ catalog = <<CatalogEntry("a", TRUE, config.streams[1].replication_method)>>
    /\ \E b \in {0} \cup AllValues :
          input_state = State(IF b = 0 THEN NoBookmarks ELSE ("a" :> b), "")
    /\ state = input_state
    /\ rpc = "sync"
    /\ run = 1
    /\ checkpoints = 0
    /\ pending = NoPending
    /\ FreshRun

NextTrack ==
    \/ SyncBegin
    \/ StreamBegin
    \/ FetchPage
    \/ SyncRecord
    \/ StreamEnd
    \/ SyncEnd

SpecTrack == InitTrack /\ [][NextTrack]_vars

\* the names of the configured streams of the runs with child streams: a
\* configured stream may itself be named with a "__"
NestedNames == {"a", "a_", "a__x"}

\* the configured parents of the runs with child streams
NestedStreams ==
    { <<StreamConfig(n, "none", "", "FULL_TABLE", TRUE)>> : n \in NestedNames } \cup
    { l \in { <<StreamConfig(n, "none", "", "FULL_TABLE", TRUE),
                 StreamConfig(m, "none", "", "FULL_TABLE", TRUE)>> :
                 n \in NestedNames, m \in NestedNames } : l[1].name # l[2].name }

\* the catalogs of the runs with child streams: the configured parents in
\* their order, each child stream of the names known after them, every
\* selection of the entries
RECURSIVE SelectionsOf(_)
SelectionsOf(names) ==
    IF names = <<>> THEN {<<>>}
    ELSE { <<CatalogEntry(Head(names), sel, "FULL_TABLE")>> \o c :
             c \in SelectionsOf(Tail(names)), sel \in BOOLEAN }

NestedCatalogs(streams) ==
    UNION { SelectionsOf([i \in 1..Len(streams) |-> streams[i].name] \o kids) :
              kids \in {<<>>, <<"a__x">>, <<"a___x">>, <<"a__x", "a___x">>} }

\* a sync of one or two parents with child streams, from a given catalog
InitChild ==
    /\ IdlePaginator
    /\ IdleCall
    /\ mode = "sync"
    /\ \E l \in NestedStreams : config = NestedConfig(l)
    /\ catalog \in NestedCatalogs(config.streams)
    /\ input_state = State(NoBookmarks, "")
    /\ state = input_state
    /\ rpc = "sync"
    /\ run = 1
    /\ checkpoints = 0
    /\ pending = NoPending
    /\ FreshRun

NextChild ==
    \/ SyncBegin
    \/ StreamBegin
    \/ FetchPage
    \/ SyncRecord
    \/ StreamEnd
    \/ SyncEnd

SpecChild == InitChild /\ [][NextChild]_vars

(***************************************************************************)
(* Properties of a run of the tap.                                         *)
(***************************************************************************)
Terminal == {"done", "failed"}

\* the configured streams
Configured == { config.streams[i] : i \in 1..Len(config.streams) }

\* the streams the run works on: every configured stream when it discovers,
\* the selected ones when it is handed a catalog
Processed(sc) ==
    \/ mode # "sync"
    \/ \E i \in 1..Len(catalog) : catalog[i].name = sc.name /\ catalog[i].selected

\* C6: if any configured stream names a pagination strategy that is not one
\* of the seven known names (and the run works on that stream), the run fails with a configuration error
\* before any network request is issued and before any stream has been
\* synced: no request and no synced stream at any point of such a run, and
\* the run can only end failed with the configuration error.
C6_UnknownStyleFailsBeforeAnyRequest ==
    (\E sc \in Configured : sc.pagination_style \notin STYLES /\ Processed(sc)) =>
        /\ net = 0
        /\ synced = {}
        /\ rpc \in Terminal => (rpc = "failed" /\ error = "config")

\* C7: after a run that crashed after a checkpoint STATE message and was
\* restarted from the last emitted STATE, a record of the source that the
\* crashed run had not written is emitted by the restarted run once it
\* completes, whatever the order the records arrived in.
C7_NoRecordLostAcrossRestart ==
    (run = 2 /\ rpc = "done" /\ checkpoints > 0 /\ pending.v # 0) => pending.emitted

\* the selected streams after the one being synced that have a config with
\* a known pagination strategy
RemainingStreams ==
    LET sel == parent_streams(catalog)
    IN  { sel[j].name : j \in { k \in (si + 1)..Len(sel) :
            /\ _find_stream_config(config, sel[k].name) # 0
            /\ config.streams[_find_stream_config(config, sel[k].name)]
                 .pagination_style \in STYLES } }

\* C8: when syncing one stream fails with a propagated transport error, every
\* remaining selected stream of the run is still synced: the run does not
\* end on the transport error with a remaining stream unsynced.
C8_TransportErrorDoesNotAbortRun ==
    (rpc \in Terminal /\ error = "transport") => RemainingStreams \subseteq synced

\* C9: for a stream whose replication method is FULL_TABLE, no STATE emitted
\* by the run holds a bookmark for the stream other than the one of the input
\* state.
C9_FullTableWritesNoBookmark ==
    \A sc \in Configured :
        (sc.replication_method = "FULL_TABLE" /\ n_state > 0) =>
            get_bookmark(last_state, sc.name) = get_bookmark(input_state, sc.name)

\* C10: a stream configured with both a replication key and replication
\* method FULL_TABLE is advertised as FULL_TABLE by the discovery catalog,
\* never as INCREMENTAL.
C10_KeyedFullTableStaysFullTable ==
    \A sc \in Configured :
        (sc.replication_key # "" /\ sc.replication_method = "FULL_TABLE") =>
            \A a \in advertised : a[1] = sc.name => a[2] = "FULL_TABLE"

\* the stream being synced is INCREMENTAL with a replication key
IncrementalStream ==
    /\ rpc = "paging"
    /\ CurrentConfig.replication_method = "INCREMENTAL"
    /\ CurrentConfig.replication_key # ""

\* m is the maximum of the values S under isNewer: one of them, with none of
\* them newer; None when there is no value
IsMaximum(m, S) ==
    IF S = {} THEN m = 0
    ELSE m \in S /\ \A v \in S : ~_compare_replication_values(v, m)

\* C11: for an INCREMENTAL stream, the bookmark written at the end of the
\* stream is the maximum under isNewer of the starting bookmark and the
\* replication values of all records seen, whatever their arrival order, and
\* the running maximum changes only to the value of the record just
\* written, which is strictly newer than the running maximum it replaces.
C11_FinalBookmarkIsMaximumOfSeen ==
    [][ /\ (IncrementalStream /\ rpc' = "stream") =>
              IsMaximum(get_bookmark(state', CurrentConfig.name),
                        ({bookmark_value} \cup seen) \ {0})
        /\ (IncrementalStream /\ rpc' = "paging"
              /\ max_replication_value' # max_replication_value) =>
              /\ page_buf # <<>>
              /\ max_replication_value' = Head(page_buf).v
              /\ _compare_replication_values(max_replication_value',
                                             max_replication_value) ]_vars

\* a record of the stream being synced is written and counted
RecordStep == rpc = "paging" /\ rpc' = "paging" /\ record_count' = record_count + 1

\* the running maximum after the step can be persisted: the stream has a
\* replication key and the maximum is not None
HasMaximumAfter == CurrentConfig.replication_key # "" /\ max_replication_value' # 0

\* exactly one STATE is written by the step, with the running maximum after
\* the step as the bookmark of the stream
WritesCheckpoint ==
    /\ n_state' = n_state + 1
    /\ get_bookmark(last_state', CurrentConfig.name) = max_replication_value'

\* C12 (as stated): immediately after every 10,000th emitted record of a
\* stream a STATE message is written whose bookmark for the stream equals the
\* running maximum replication value at that moment.
C12_CheckpointAtEvery10000thRecord ==
    [][ (RecordStep /\ record_count' % CHECKPOINT_INTERVAL = 0) =>
            WritesCheckpoint ]_vars

\* C12 (amended): for a stream with a replication key, the step that writes
\* the 10,000th, 20,000th, ... record also writes a STATE whose bookmark for
\* the stream is the running maximum after that record, provided the maximum
\* is not None; no other record step writes a STATE; and the end of the
\* stream writes a STATE whose bookmark is the running maximum when the
\* stream has a replication key and the maximum is not None.
C12_CheckpointWhenMaximumKnown ==
    [][ /\ (RecordStep /\ record_count' % CHECKPOINT_INTERVAL = 0 /\ HasMaximumAfter) =>
              WritesCheckpoint
        /\ (RecordStep /\ ~(record_count' % CHECKPOINT_INTERVAL = 0 /\ HasMaximumAfter)) =>
              UNCHANGED <<n_state, last_state>>
        /\ (rpc = "paging" /\ rpc' = "stream" /\ CurrentConfig.replication_key # ""
              /\ max_replication_value # 0) =>
              /\ n_state' = n_state + 1
              /\ get_bookmark(last_state', CurrentConfig.name)
                   = max_replication_value ]_vars

\* the 10,000th record of a stream has just been written and the STATE
\* written with it carries the running maximum
C12_Witness ==
    /\ rpc = "paging"
    /\ record_count = CHECKPOINT_INTERVAL
    /\ checkpoints = 1
    /\ max_replication_value # 0
    /\ get_bookmark(last_state, "a") = max_replication_value


\* C13: in any run, a stream (parent or child) for which at least one RECORD
\* message has been emitted has exactly one SCHEMA message, emitted before
\* its records: whenever a stream has a record, it has one SCHEMA message
\* and never gets another.
C13_OneSchemaBeforeRecords ==
    \A n \in AllNames : record_msgs[n] > 0 => schema_msgs[n] = 1


\* C39: every selected catalog stream whose name equals the name of a
\* configured stream is synced as a parent, whatever characters its name
\* contains, a "__" included: when the run has ended without an error, the
\* parent sync of each such stream has run (its SCHEMA written, its endpoint
\* paginated).
C39_ConfiguredStreamSyncedAsParent ==
    (rpc = "done" /\ error = "") =>
        \A i \in 1..Len(catalog) :
            (catalog[i].selected /\ \E sc \in Configured : sc.name = catalog[i].name)
                => catalog[i].name \in synced

\* C14: the parent RECORD messages of a stream are emitted in the order the
\* records appear in the pages: the record written last is the one at
\* position record_count of the source, and the records of the page still
\* to be written are the next ones, in order, none skipped.
C14_RecordsEmittedInSourceOrder ==
    /\ emitted_pos = record_count
    /\ \A i \in 1..Len(page_buf) : page_buf[i].pos = record_count + i

\* the records of a first page and one of a second page have been written
C14_Witness ==
    /\ rpc = "paging"
    /\ pag_fetched >= 2
    /\ record_count >= 3
    /\ page_buf # <<>>
    /\ emitted_pos = record_count


\* C15: every record extracted from a page yields exactly one parent RECORD
\* message: a step from a state with a record still to be written writes one
\* RECORD of the stream and stays in the loop, the RECORD carries the
\* untransformed record when the transform fails; and the number of parent
\* RECORD messages equals the number of records taken from the pages.
C15_OneRecordPerExtractedRecord ==
    [][ (rpc = "paging" /\ page_buf # <<>>) =>
            /\ rpc' = "paging"
            /\ page_buf' = Tail(page_buf)
            /\ record_msgs'[CurrentConfig.name] = record_msgs[CurrentConfig.name] + 1
            /\ record_msgs'[CurrentConfig.name] = emitted_pos'
            /\ last_form' = IF Head(page_buf).conforms THEN "transformed" ELSE "raw"
      ]_vars

\* both records of a page have been written, the last one raw because its
\* transform failed
C15_Witness ==
    /\ rpc = "paging"
    /\ record_count = 2
    /\ record_msgs[CurrentConfig.name] = 2
    /\ last_form = "raw"
    /\ page_buf = <<>>
    /\ pag_done


\* a paginator driven over a fixture, the rest of the tap idle
\* C37: across the runs of a stream with a replication key, the bookmark
\* stored in the state for that stream never moves to a value older (under
\* isNewer) than the value it held before the run, whatever the replication
\* method and whatever records the source returns.
C37_BookmarkNeverMovesBack ==
    (/\ config.streams[1].replication_key # ""
     /\ get_bookmark(input_state, "a") # 0) =>
        ~_compare_replication_values(get_bookmark(input_state, "a"),
                                     get_bookmark(state, "a"))

(***************************************************************************)
(* Single calls of record_extractor.extract_records on a decoded page.     *)
(***************************************************************************)
ExtractLists == {JList(items) : items \in ItemSeqs}

\* decoded pages: scalars, arrays, and objects whose fields hold arrays
\* directly or one level deeper, under wrapper keys and under other keys
ExtractPages ==
    {JNull, JNum(5), JStr("s", 1), Rec, JDict(<<>>),
     JDict(<<Pair("data", JNull)>>), JDict(<<Pair("data", Rec)>>)}
    \cup ExtractLists
    \cup {JDict(<<Pair(k, l)>>) : k \in {"data", "rows", "other", ""},
                                  l \in ExtractLists}
    \cup {JDict(<<Pair("data", l), Pair("other", m)>>) :
             l \in ExtractLists, m \in ExtractLists}
    \cup {JDict(<<Pair(k, JDict(<<Pair(sub, l)>>))>>) :
             k \in {"response", "other"}, sub \in {"items", "other"},
             l \in ExtractLists}
    \cup {JDict(<<Pair(k, l), Pair("data", m)>>) :
             k \in {"rows", "more"}, l \in ExtractLists, m \in ExtractLists}
    \cup {JDict(<<Pair("payload", JDict(<<Pair("rows", l), Pair("items", m)>>)),
                  Pair("response", n)>>) :
             l \in ExtractLists, m \in ExtractLists,
             n \in {JList(<<>>), JList(<<Rec, Rec>>), JNum(5)}}

ExtractPaths ==
    {NoPath, InvalidPath, Path(<<"data">>, FALSE), Path(<<"data">>, TRUE),
     Path(<<"missing">>, FALSE), Path(<<"response", "items">>, TRUE)}

InitExtract ==
    /\ IdlePaginator
    /\ IdleRun
    /\ fn = ""
    /\ args \in [response_data : ExtractPages, records_path : ExtractPaths]
    /\ result = NoCall

\* raw_records = extract_records(page_data, records_path)
CallExtract ==
    /\ fn = ""
    /\ fn' = "extract_records"
    /\ result' =
          [raised |-> extract_records_raises(args.response_data, args.records_path),
           records |-> extract_records(args.response_data, args.records_path)]
    /\ UNCHANGED <<args, pagVars, runVars>>

NextExtract == CallExtract

SpecExtract == InitExtract /\ [][NextExtract]_vars

Extracted == fn = "extract_records"

\* v is an array containing an object
HoldsAnObject(v) == IsList(v) /\ \E i \in 1..Len(v.items) : IsDict(v.items[i])

WrapperKeys == {COMMON_RECORD_KEYS[i] : i \in 1..Len(COMMON_RECORD_KEYS)}

\* no top-level field of the page holds an array containing an object
NoTopLevelRecords(pg) ==
    \A i \in 1..Len(pg.pairs) : ~HoldsAnObject(pg.pairs[i].v)

\* no wrapper key of the page holds an object in which a wrapper key holds an
\* array containing an object
NoNestedRecords(pg) ==
    \A i \in 1..Len(pg.pairs) :
        pg.pairs[i].k \in WrapperKeys /\ IsDict(pg.pairs[i].v)
            => \A j \in 1..Len(pg.pairs[i].v.pairs) :
                   pg.pairs[i].v.pairs[j].k \in WrapperKeys
                       => ~HoldsAnObject(pg.pairs[i].v.pairs[j].v)

ReturnsObjects ==
    /\ result.raised = ""
    /\ \A i \in 1..Len(result.records) : IsDict(result.records[i])

\* C16 as stated: extract_records never raises and returns only objects, and
\* an object page without a path expression in which no top-level field
\* holds an array containing an object comes back as the one-element list
\* holding the page.
C16_WholePageWhenNoArrayOfObjects ==
    Extracted =>
        /\ ReturnsObjects
        /\ (/\ IsDict(args.response_data)
            /\ ~args.records_path.set
            /\ NoTopLevelRecords(args.response_data))
               => result.records = <<args.response_data>>

\* C16 amended: extract_records never raises and returns only objects, and
\* an object page without a path expression comes back as the one-element
\* list holding the page when no top-level field holds an array containing
\* an object and no wrapper key holds an object in which a wrapper key holds
\* such an array.
C16_WholePageWhenNothingDetected ==
    Extracted =>
        /\ ReturnsObjects
        /\ (/\ IsDict(args.response_data)
            /\ ~args.records_path.set
            /\ NoTopLevelRecords(args.response_data)
            /\ NoNestedRecords(args.response_data))
               => result.records = <<args.response_data>>

\* a page whose only array holds no object came back whole
C16_Witness ==
    /\ Extracted
    /\ ~args.records_path.set
    /\ args.response_data = JDict(<<Pair("data", JList(<<JNum(5)>>))>>)
    /\ result.records = <<args.response_data>>

\* the wrapper keys, by priority, under which an object holds an array
\* containing an object
WrappedArrayKeys(v) ==
    {i \in 1..Len(COMMON_RECORD_KEYS) :
        /\ KeyIn(COMMON_RECORD_KEYS[i], v)
        /\ HoldsAnObject(Get(v, COMMON_RECORD_KEYS[i]))}

\* the wrapper keys K, by priority, such that page[K] is an array with an
\* object element or an object holding such an array under a wrapper key
DetectedKeys(pg) ==
    {i \in 1..Len(COMMON_RECORD_KEYS) :
        /\ KeyIn(COMMON_RECORD_KEYS[i], pg)
        /\ LET v == Get(pg, COMMON_RECORD_KEYS[i])
           IN  HoldsAnObject(v) \/ (IsDict(v) /\ WrappedArrayKeys(v) # {})}

\* the array found under the wrapper key of priority i
DetectedArray(pg, i) ==
    LET v == Get(pg, COMMON_RECORD_KEYS[i])
    IN  IF IsList(v) THEN v ELSE Get(v, COMMON_RECORD_KEYS[Min(WrappedArrayKeys(v))])

ObjectCount(v) == IF IsList(v) THEN Len(DictItems(v.items)) ELSE 0

\* the object elements of the top-level fields with the most of them
LargestArrays(pg) ==
    {DictItems(pg.pairs[i].v.items) : i \in
        {i \in 1..Len(pg.pairs) :
            /\ ObjectCount(pg.pairs[i].v) > 0
            /\ \A j \in 1..Len(pg.pairs) :
                   ObjectCount(pg.pairs[j].v) <= ObjectCount(pg.pairs[i].v)}}

\* C34: for an object page with no path expression, extract_records returns
\* the object elements of the array found under the earliest key K of the
\* priority list such that page[K] is an array with an object element or an
\* object holding such an array under a priority-list key; only when no
\* such K exists is the result taken from the top-level field with the most
\* object elements, or is the whole page.
C34_EarliestWrapperKeyWins ==
    (Extracted /\ IsDict(args.response_data) /\ ~args.records_path.set) =>
        LET pg == args.response_data
        IN  IF DetectedKeys(pg) # {}
            THEN result.records =
                     DictItems(DetectedArray(pg, Min(DetectedKeys(pg))).items)
            ELSE result.records \in LargestArrays(pg) \cup {<<pg>>}

\* "payload" comes first in the page and holds arrays of objects under
\* "rows" and "items"; "items" has priority over "rows", and "payload" is
\* the earliest key of the list that qualifies, "response" holding no array
C34_Witness ==
    /\ Extracted
    /\ ~args.records_path.set
    /\ args.response_data =
           JDict(<<Pair("payload",
                        JDict(<<Pair("rows", JList(<<Rec, Rec>>)),
                                Pair("items", JList(<<JNum(5), Rec>>))>>)),
                   Pair("response", JNum(5))>>)
    /\ result.records = <<Rec>>

\* the configured path expression parses and matches nothing in the page
MatchesNothing ==
    /\ IsDict(args.response_data)
    /\ args.records_path.set
    /\ ~args.records_path.invalid
    /\ jsonpath_find(args.response_data, args.records_path) = <<>>

\* C17: for an object page and a configured path expression that matches
\* nothing, extract_records returns the empty list without raising and
\* without auto-detecting.
C17_NoMatchYieldsEmpty ==
    Extracted /\ MatchesNothing => result = [raised |-> "", records |-> <<>>]

\* the path matched nothing in a page where auto-detection finds a record
C17_Witness ==
    /\ Extracted
    /\ MatchesNothing
    /\ _auto_detect_records(args.response_data) = <<Rec>>
    /\ result.records = <<>>

(***************************************************************************)
(* Single calls of schema_inference._merge_types on FieldTypes.            *)
(***************************************************************************)
Object(props) == [type |-> <<"null", "object">>, properties |-> props]
Array(items) == [type |-> <<"null", "array">>, items |-> items]

\* what _infer_type returns for one value
InferredTypes == {_infer_type(value) : value \in PyValues}

LeafTypes ==
    {Typed("string"), Typed("integer"), Object(EmptyDict),
     [type |-> <<"null", "string">>, format |-> "date-time"]}

\* objects whose properties _observe_record filled in
ObjectTypes ==
    {Object("p" :> l) : l \in LeafTypes}
    \cup {Object(("p" :> l) @@ ("q" :> Typed("string"))) : l \in LeafTypes}
    \cup {Object("q" :> Typed("string")),
          Object("p" :> Object("p" :> Typed("string")))}

\* arrays whose item schema _observe_record filled in
ArrayTypes ==
    {Array(i) : i \in LeafTypes \cup {Object("p" :> Typed("string"))}}

\* fields seen with values of two classes
MixedTypes ==
    {_merge_types(_infer_type(PyValue(x, dx)), _infer_type(PyValue(y, FALSE))) :
        x \in {"str", "dict"}, dx \in BOOLEAN, y \in {"int", "list", "str"}}

FieldTypes ==
    {EmptyDict} \cup InferredTypes \cup ObjectTypes \cup ArrayTypes
    \cup MixedTypes

InitMerge ==
    /\ IdlePaginator
    /\ IdleRun
    /\ fn = ""
    /\ args \in [a : FieldTypes, b : FieldTypes, c : FieldTypes]
    /\ result = NoCall

\* properties[key] = _merge_types(properties[key], inferred), in the orders
\* and groupings in which three observations can be merged
CallMerge ==
    /\ fn = ""
    /\ fn' = "_merge_types"
    /\ result' = [aa |-> _merge_types(args.a, args.a),
                  ab |-> _merge_types(args.a, args.b),
                  ba |-> _merge_types(args.b, args.a),
                  ab_c |-> _merge_types(_merge_types(args.a, args.b), args.c),
                  a_bc |-> _merge_types(args.a, _merge_types(args.b, args.c))]
    /\ UNCHANGED <<args, pagVars, runVars>>

NextMerge == CallMerge

SpecMerge == InitMerge /\ [][NextMerge]_vars

Merged == fn = "_merge_types"

\* C18: type merge is idempotent: for every FieldType a that inference can
\* produce, an object kind with an empty property map and an array kind with
\* an empty item schema included, merge(a, a) equals a.
C18_MergeIsIdempotent ==
    Merged => result.aa = args.a

\* C19: type merge is associative: merge(merge(a, b), c) equals
\* merge(a, merge(b, c)) for all FieldTypes a, b, c, empty property maps and
\* item schemas included.
C19_MergeIsAssociative ==
    Merged => result.ab_c = result.a_bc

\* three different object types, one with an empty property map, were merged
\* and the shared property carries the kinds of both
C19_Witness ==
    /\ Merged
    /\ args.a = Object(EmptyDict)
    /\ args.b = Object("p" :> [type |-> <<"null", "string">>,
                               format |-> "date-time"])
    /\ args.c = Object(("p" :> Typed("integer")) @@ ("q" :> Typed("string")))
    /\ result.ab_c = result.a_bc
    /\ result.ab_c["properties"]["p"] = [type |-> <<"null", "string", "integer">>]

\* x and y have the same kind set, the same format tag and, recursively, the
\* same property map and item schema
RECURSIVE SameShape(_, _)
SameShape(x, y) ==
    /\ DOMAIN x = DOMAIN y
    /\ "type" \in DOMAIN x => Kinds(x["type"]) = Kinds(y["type"])
    /\ "format" \in DOMAIN x => x["format"] = y["format"]
    /\ "properties" \in DOMAIN x =>
          /\ DOMAIN x["properties"] = DOMAIN y["properties"]
          /\ \A key \in DOMAIN x["properties"] :
                SameShape(x["properties"][key], y["properties"][key])
    /\ "items" \in DOMAIN x => SameShape(x["items"], y["items"])

\* C20: type merge is commutative: merge(a, b) and merge(b, a) have the same
\* kind set, the same format tag and, recursively, the same nested property
\* map and item schema.
C20_MergeIsCommutative ==
    Merged => SameShape(result.ab, result.ba)

\* a date-time string and an object with a property were merged both ways:
\* the kinds come in different orders and are the same set
C20_Witness ==
    /\ Merged
    /\ args.a = [type |-> <<"null", "string">>, format |-> "date-time"]
    /\ args.b = Object("p" :> Typed("integer"))
    /\ result.ab # result.ba
    /\ SameShape(result.ab, result.ba)
    /\ "properties" \in DOMAIN result.ab

(***************************************************************************)
(* Discovery and sync of one stream "s" over a sample of records:          *)
(* infer_schema_from_records and build_flat_schema as discover calls them, *)
(* then flatten_record and extract_child_records as _sync_parent_stream    *)
(* calls them on each record.                                              *)
(***************************************************************************)
MaxSample == 2

Obj1(k, v) == JDict(<<Pair(k, v)>>)

\* the values the field "f" takes in the sampled records
DenestValues ==
    {JNum(7), JStr("s", 1), JStr("2024-01-15T10:30:00Z", 20), JNull,
     Obj1("x", JNum(1)), JDict(<<>>),
     JList(<<>>), JList(<<JNum(1), JNum(2)>>), JList(<<JDict(<<>>)>>),
     JList(<<Obj1("a", JNum(1)), JNum(5), Obj1("a", JNum(2))>>),
     JList(<<JNum(5), Obj1("a", JNum(1))>>),
     JList(<<Obj1("a", Obj1("b", JNum(1)))>>),
     Obj1("x", JList(<<Obj1("a", JNum(1))>>)),
     JList(<<JDict(<<Pair("_sdc_sequence", JNum(9)),
                     Pair("_sdc_source_key_id", JNum(9))>>)>>)}

DenestRecords ==
    {JDict(<<Pair("id", JNum(1)), Pair("f", v)>>) : v \in DenestValues}

Samples == UNION {[1..n -> DenestRecords] : n \in 1..MaxSample}

Orders(n) ==
    {order \in [1..n -> 1..n] :
        \A i \in 1..n : \A j \in 1..n : i # j => order[i] # order[j]}

Permuted(records, order) == [i \in 1..Len(records) |-> records[order[i]]]

InitDenest ==
    /\ IdlePaginator
    /\ IdleRun
    /\ fn = ""
    /\ \E records \in Samples :
         \E order \in Orders(Len(records)) :
           \E key_properties \in {<<>>, <<"id">>} :
              args = [records |-> records, order |-> order,
                      stream_name |-> "s", key_properties |-> key_properties]
    /\ result = NoCall

\* discover: the schema inferred from the sample, and from the sample in
\* another order, then flattened and denested
DiscoverSample ==
    /\ fn = ""
    /\ fn' = "discover"
    /\ LET raw_schema == infer_schema_from_records(args.records)
           built == build_flat_schema(raw_schema, args.stream_name,
                                      args.key_properties)
       IN  result' =
             [raw_schema |-> raw_schema,
              permuted_schema |->
                  infer_schema_from_records(Permuted(args.records, args.order)),
              flat_schema |-> built.flat_schema,
              child_streams |-> built.child_streams,
              flat_records |-> <<>>,
              child_records |-> <<>>]
    /\ UNCHANGED <<args, pagVars, runVars>>

\* sync: every sampled record is flattened and its child records extracted
SyncSample ==
    /\ fn = "discover"
    /\ fn' = "sync"
    /\ result' =
         [result EXCEPT
            !.flat_records =
                [i \in 1..Len(args.records) |->
                    flatten_record(args.records[i], "", 0)],
            !.child_records =
                [i \in 1..Len(args.records) |->
                    [child_name \in DOMAIN result.child_streams |->
                        extract_child_records(args.records[i],
                            result.child_streams[child_name],
                            args.key_properties)]]]
    /\ UNCHANGED <<args, pagVars, runVars>>

NextDenest == DiscoverSample \/ SyncSample

SpecDenest == InitDenest /\ [][NextDenest]_vars

Discovered == fn \in {"discover", "sync"}
Synced == fn = "sync"

\* C21: schema inference is order-independent: the schema inferred from a
\* permutation of the sample has the same kind set, format tag and nested
\* shape at every field position as the schema inferred from the sample.
C21_InferenceIsOrderIndependent ==
    Discovered => SameShape(result.raw_schema, result.permuted_schema)

\* C22: every key of flatten_record(r) is a property of flatten_schema(S),
\* for every record r of the sample from which S was inferred.
C22_FlatRecordKeysAreFlatSchemaProperties ==
    Synced =>
        \A i \in 1..Len(args.records) :
            DOMAIN result.flat_records[i]
                \subseteq DOMAIN result.flat_schema["properties"]

\* the top-level fields promoted to child streams
PromotedFields ==
    {result.child_streams[c].array_key : c \in DOMAIN result.child_streams}

\* C23: a field promoted to a child stream is neither a property of the
\* flattened schema nor a key of the flattened form of any sampled record,
\* whatever its value in that record.
C23_PromotedFieldLeavesTheParent ==
    Synced =>
        \A f \in PromotedFields :
            /\ f \notin DOMAIN result.flat_schema["properties"]
            /\ \A i \in 1..Len(args.records) :
                   f \notin DOMAIN result.flat_records[i]

\* the kinds of a schema, none when it has no "type"
KindsOf(schema) == IF "type" \in DOMAIN schema THEN Kinds(schema["type"]) ELSE {}

\* the field is an array of objects with at least one property
Promotable(field_schema) ==
    /\ "array" \in KindsOf(field_schema)
    /\ "items" \in DOMAIN field_schema
    /\ "object" \in KindsOf(field_schema["items"])
    /\ "properties" \in DOMAIN field_schema["items"]
    /\ DOMAIN field_schema["items"]["properties"] # {}

ObjectPositions(items) ==
    LET idx == {i \in 1..Len(items) : IsDict(items[i])}
    IN  [k \in 1..Cardinality(idx) |->
            (CHOOSE i \in idx : Cardinality({j \in idx : j < i}) = k - 1) - 1]

\* C25: for a parent record whose promoted array field holds N object items,
\* extract_child_records returns N records in the array's order, each with
\* _sdc_sequence equal to the item's zero-based index in the array and each
\* _sdc_source_key_{pk} equal to the parent record's value of pk; an empty or
\* absent array yields no record.
C25_ChildRecordsCarryIndexAndParentKeys ==
    Synced =>
        \A i \in 1..Len(args.records) : \A c \in DOMAIN result.child_streams :
            LET record == args.records[i]
                value == record_get(record, result.child_streams[c].array_key)
                children == result.child_records[i][c]
            IN  IF ~IsList(value) THEN children = <<>>
                ELSE LET positions == ObjectPositions(value.items)
                     IN  /\ Len(children) = Len(positions)
                         /\ \A k \in 1..Len(children) :
                              /\ children[k]["_sdc_sequence"] = JNum(positions[k])
                              /\ \A n \in 1..Len(args.key_properties) :
                                    children[k]["_sdc_source_key_"
                                                    \o args.key_properties[n]]
                                        = record_get(record, args.key_properties[n])

\* C26: every key of every record returned by extract_child_records is a
\* property of the child schema built by identify_child_streams.
C26_ChildRecordKeysAreChildSchemaProperties ==
    Synced =>
        \A i \in 1..Len(args.records) : \A c \in DOMAIN result.child_streams :
            \A k \in 1..Len(result.child_records[i][c]) :
                DOMAIN result.child_records[i][c][k]
                    \subseteq DOMAIN result.child_streams[c].schema["properties"]

\* the arrays of scalars among the values of the field
ScalarArrays ==
    {v \in DenestValues : IsList(v) /\ \A i \in 1..Len(v.items) :
                                          ~IsDict(v.items[i]) /\ ~IsList(v.items[i])}

\* json.loads(text): the value whose JSON text it is
json_loads(text) == CHOOSE v \in ScalarArrays : json_dumps(v) = text

\* C27: for every array-of-scalars value v of a record, the empty array
\* included, flatten_record stores under the field's key the JSON text of v,
\* and parsing the stored text yields v.
C27_ScalarArrayStoredAsJsonText ==
    Synced =>
        \A i \in 1..Len(args.records) :
            LET v == Get(args.records[i], "f")
                flat == result.flat_records[i]
            IN  v \in ScalarArrays =>
                    /\ "f" \in DOMAIN flat
                    /\ flat["f"].t = "str"
                    /\ \E w \in ScalarArrays : json_dumps(w) = flat["f"].s
                    /\ json_loads(flat["f"].s) = v

\* every property type of the schema, at every depth, and every non-empty
\* item schema of an array, has null among its kinds
RECURSIVE Nullable(_)
Nullable(field_schema) ==
    /\ "null" \in KindsOf(field_schema)
    /\ "properties" \in DOMAIN field_schema =>
          \A key \in DOMAIN field_schema["properties"] :
              Nullable(field_schema["properties"][key])
    /\ ("items" \in DOMAIN field_schema /\ NonEmpty(field_schema["items"])) =>
          Nullable(field_schema["items"])

\* C29: every property type produced by schema inference, and every item
\* type inferred for an array, contains null in its kind set.
C29_InferredTypesAreNullable ==
    Discovered =>
        \A key \in DOMAIN result.raw_schema["properties"] :
            Nullable(result.raw_schema["properties"][key])

\* an array that held a scalar and then an object got an item type, with a
\* property, and both are nullable
C29_Witness ==
    /\ Discovered
    /\ Len(args.records) = 1
    /\ Get(args.records[1], "f") =
           JList(<<JNum(5), JDict(<<Pair("a", JNum(1))>>)>>)
    /\ result.raw_schema["properties"]["f"]["items"] =
           [type |-> <<"null", "object">>,
            properties |-> [a |-> [type |-> <<"null", "integer">>]]]

\* the record with the array in its last field cut after k items
CutAfter(record, k) ==
    LET n == Len(record.pairs)
        last == record.pairs[n]
    IN  JDict([record.pairs EXCEPT
                  ![n] = Pair(last.k, JList(SubSeq(last.v.items, 1, k)))])

\* the properties that _observe_record has built at the points of the
\* observation of the sample that precede its end: after each record, and
\* inside a record whose last field is an array, after each item of it
EarlierObservations(records) ==
    {ObserveRecords(EmptyDict, SubSeq(records, 1, n), 0) :
        n \in 0..(Len(records) - 1)}
    \cup
    UNION {
        LET record == records[n]
            last == record.pairs[Len(record.pairs)].v
        IN  IF IsList(last)
            THEN {ObserveRecords(EmptyDict,
                      Append(SubSeq(records, 1, n - 1), CutAfter(record, k)), 0) :
                     k \in 0..(Len(last.items) - 1)}
            ELSE {} :
        n \in 1..Len(records)}

\* every kind recorded at a position of the earlier schema is recorded at
\* the same position of the later one
RECURSIVE KindsKept(_, _)
KindsKept(earlier, later) ==
    /\ KindsOf(earlier) \subseteq KindsOf(later)
    /\ "properties" \in DOMAIN earlier =>
          \A key \in DOMAIN earlier["properties"] :
              /\ "properties" \in DOMAIN later
              /\ key \in DOMAIN later["properties"]
              /\ KindsKept(earlier["properties"][key], later["properties"][key])
    /\ ("items" \in DOMAIN earlier /\ NonEmpty(earlier["items"])) =>
          /\ "items" \in DOMAIN later
          /\ KindsKept(earlier["items"], later["items"])

\* C31: the kind set recorded at any field position (a property or an
\* array's item type) only grows as further records and array items are
\* observed: a kind observed earlier is never removed or overwritten.
C31_ObservedKindsOnlyGrow ==
    Discovered =>
        \A earlier \in EarlierObservations(args.records) :
            KindsKept([properties |-> earlier], result.raw_schema)

\* C32: an object field that is empty contributes no flattened key, in
\* flatten_record for every record that holds it empty, and in
\* flatten_schema when every sampled record holds it empty, be it one
\* record or several.
C32_EmptyObjectContributesNoKey ==
    Synced =>
        /\ \A i \in 1..Len(args.records) :
              Get(args.records[i], "f") = JDict(<<>>) =>
                  DOMAIN result.flat_records[i] = {"id"}
        /\ (\A i \in 1..Len(args.records) :
               Get(args.records[i], "f") = JDict(<<>>)) =>
                  DOMAIN result.flat_schema["properties"] = {"id"}

\* the arrays that flatten_record leaves out of the flattened record as
\* arrays of objects, at any depth, each with its flattened key
RECURSIVE OmittedArrays(_, _)
OmittedArrays(record, parent_key) ==
    UNION {
        LET key == record.pairs[i].k
            value == record.pairs[i].v
            new_key == IF parent_key # "" THEN Joined(parent_key, key) ELSE key
        IN  IF IsDict(value) THEN OmittedArrays(value, new_key)
            ELSE IF IsList(value) /\ value.items # <<>> /\ IsDict(value.items[1])
            THEN {[key |-> new_key, value |-> value]}
            ELSE {} :
        i \in 1..Len(record.pairs)}

\* C36: no array-of-objects data is lost by denesting: every field that
\* flattening omits from the parent because it is an array of objects, at
\* any nesting depth inside the record, has a child stream, and its object
\* items are emitted as the child records of that stream.
C36_OmittedArraysBecomeChildRecords ==
    Synced =>
        \A i \in 1..Len(args.records) :
            \A omitted \in OmittedArrays(args.records[i], "") :
                LET child_name == Joined(args.stream_name, omitted.key)
                IN  /\ omitted.key \notin DOMAIN result.flat_records[i]
                    /\ child_name \in DOMAIN result.child_streams
                    /\ Len(result.child_records[i][child_name])
                           = Len(DictItems(omitted.value.items))

(***************************************************************************)
(* Single calls of sync._compare_replication_values.                       *)
(***************************************************************************)
\* the index of a replication value, by its text
ValueOf(text) == CHOOSE i \in 1..Len(RepValues) : RepValues[i].text = text

InitCompare ==
    /\ IdlePaginator
    /\ IdleRun
    /\ fn = ""
    /\ args \in [value_a : 0..Len(RepValues), value_b : 0..Len(RepValues)]
    /\ result = NoCall

\* if _compare_replication_values(rep_value, max_replication_value):
CallCompare ==
    /\ fn = ""
    /\ fn' = "_compare_replication_values"
    /\ result' = [newer |-> _compare_replication_values(args.value_a, args.value_b)]
    /\ UNCHANGED <<args, pagVars, runVars>>

NextCompare == CallCompare

SpecCompare == InitCompare /\ [][NextCompare]_vars

Compared == fn = "_compare_replication_values"

\* the cascade: as date-times when both sides parse as date-times, else as
\* numbers when both parse as numbers, else lexically
CascadeNewer(a, b) ==
    IF a.dt # "none" /\ b.dt # "none" THEN a.t > b.t
    ELSE IF a.isnum /\ b.isnum THEN a.num > b.num
    ELSE a.lex > b.lex

\* C28: isNewer(a, b) is false whenever a is null and true whenever a is
\* non-null and b is null; otherwise it compares as date-times when both
\* sides parse as date-times, else as numbers when both parse as numbers,
\* else lexically; isNewer("100", "20") is true and
\* isNewer("2024-02-01T00:00:00Z", "2024-01-01T00:00:00Z") is true.
C28_IsNewerCascade ==
    Compared =>
        /\ args.value_a = 0 => ~result.newer
        /\ args.value_a # 0 /\ args.value_b = 0 => result.newer
        /\ args.value_a # 0 /\ args.value_b # 0 =>
              result.newer = CascadeNewer(RepValues[args.value_a],
                                          RepValues[args.value_b])
        /\ args.value_a = ValueOf("100") /\ args.value_b = ValueOf("20")
              => result.newer
        /\ (/\ args.value_a = ValueOf("2024-02-01T00:00:00Z")
            /\ args.value_b = ValueOf("2024-01-01T00:00:00Z")) => result.newer

(***************************************************************************)
(* client.py: RestClient.request under its three backoff decorators, with  *)
(* the auth handlers of auth.py.  A response is its status code; 0 stands  *)
(* for a send that raises requests.ConnectionError or requests.Timeout.    *)
(***************************************************************************)
SERVER_MAX_TRIES == 5
RATE_LIMIT_MAX_TRIES == 7
CONNECTION_MAX_TRIES == 5

Statuses == {0, 200, 401, 404, 429, 500}
AuthMethods == {"no_auth", "bearer_token", "oauth2"}
HttpMethods == {"GET", "POST"}

\* a retry that always uses GET
retry_method_get(method) == "GET"

\* the method of the retry after a token refresh
retry_method(method) == method

\* the exception the tail of request raises for the response it holds, ""
\* when it returns the response
StatusError(status) ==
    IF 500 <= status /\ status < 600 THEN "ServerError"
    ELSE IF 400 <= status /\ status < 500 THEN "ClientError"
    ELSE ""

NoAttempt ==
    [first |-> -1, sends |-> 0, token_requests |-> 0, refreshes |-> 0,
     retries |-> 0, retry_method |-> "", second |-> -1, error |-> ""]

\* one execution of the body of request: the first response, the token
\* requests made, the refresh and the retry after a 401, and the exception
\* raised; token says whether the OAuth2 handler holds a valid token,
\* token_ok and refresh_ok whether the token endpoint answers 200
Attempt(auth_method, method, token, first, token_ok, refresh_ok, second) ==
    LET oauth2 == auth_method = "oauth2"
        asked == IF oauth2 /\ ~token THEN 1 ELSE 0
    IN  IF oauth2 /\ ~token /\ ~token_ok
        THEN [NoAttempt EXCEPT !.token_requests = 1, !.error = "AuthError"]
        ELSE LET sent == [NoAttempt EXCEPT !.first = first, !.sends = 1,
                                           !.token_requests = asked]
             IN  IF first = 0 THEN [sent EXCEPT !.error = "ConnectionError"]
                 ELSE IF first = 429 THEN [sent EXCEPT !.error = "RateLimitError"]
                 ELSE IF first = 401
                 THEN IF ~oauth2 THEN [sent EXCEPT !.error = "AuthError"]
                      ELSE LET refreshed ==
                                   [sent EXCEPT !.refreshes = 1,
                                                !.token_requests = asked + 1]
                           IN  IF ~refresh_ok
                               THEN [refreshed EXCEPT !.error = "AuthError"]
                               ELSE LET retried ==
                                           [refreshed EXCEPT
                                               !.sends = 2, !.retries = 1,
                                               !.retry_method = retry_method(method),
                                               !.second = second]
                                    IN  IF second = 0
                                        THEN [retried EXCEPT !.error = "ConnectionError"]
                                        ELSE IF second = 401
                                        THEN [retried EXCEPT !.error = "AuthError"]
                                        ELSE [retried EXCEPT
                                                 !.error = StatusError(second)]
                 ELSE [sent EXCEPT !.error = StatusError(first)]

\* whether the handler holds a valid token after the attempt
TokenAfter(auth_method, token, attempt) ==
    IF auth_method # "oauth2" THEN FALSE
    ELSE IF attempt.error = "AuthError" /\ attempt.sends < 2
              /\ attempt.token_requests > 0 /\ attempt.first # 401 THEN FALSE
    ELSE IF attempt.refreshes = 1 THEN attempt.retries = 1
    ELSE TRUE

InitRequest ==
    /\ IdlePaginator
    /\ IdleRun
    /\ fn = ""
    /\ args \in [auth_method : AuthMethods, method : HttpMethods]
    /\ result = NoCall

\* client.request(url, params): the call enters the three backoff wrappers
CallRequest ==
    /\ fn = ""
    /\ fn' = "request"
    /\ \E token \in IF args.auth_method = "oauth2" THEN BOOLEAN ELSE {FALSE} :
          result' = [pc |-> "call", token |-> token, last |-> NoAttempt,
                     server_tries |-> 0, rate_tries |-> 0, connection_tries |-> 0,
                     error |-> "", sends |-> 0, answers |-> "none"]
    /\ UNCHANGED <<args, pagVars, runVars>>

\* a wrapper that allows one call more
Exhausted_one_late(tries, max_tries) == tries >= max_tries

\* backoff gives up when the call that just failed was the max_tries-th;
\* tries counts the failed calls before it
Exhausted(tries, max_tries) == tries + 1 >= max_tries

\* what the endpoint has answered so far, over the first responses of the
\* executions: nothing yet, only 5xx, only 429, or anything else
Answers(so_far, attempt) ==
    LET this == IF attempt.sends = 0 THEN "none"
                ELSE IF attempt.first = 429 THEN "only_429"
                ELSE IF 500 <= attempt.first /\ attempt.first < 600
                THEN "only_5xx"
                ELSE "mixed"
    IN  IF so_far = "none" THEN this
        ELSE IF this = "none" \/ this = so_far THEN so_far
        ELSE "mixed"

\* one execution of the body of request and what the backoff wrappers do
\* with the exception it raises: the innermost retries connection errors,
\* the next rate limits, the outermost server errors; each counts the calls
\* it made and starts anew when an outer wrapper calls it again
RequestAttempt ==
    /\ fn = "request"
    /\ result.pc = "call"
    /\ \E first \in Statuses :
       \E token_ok \in IF args.auth_method = "oauth2" /\ ~result.token
                        THEN BOOLEAN ELSE {TRUE} :
       \E refresh_ok \in IF args.auth_method = "oauth2" /\ first = 401
                          THEN BOOLEAN ELSE {TRUE} :
       \E second \in IF args.auth_method = "oauth2" /\ first = 401 /\ refresh_ok
                      THEN Statuses ELSE {200} :
          LET attempt == Attempt(args.auth_method, args.method, result.token,
                                 first, token_ok, refresh_ok, second)
              after == [result EXCEPT
                           !.last = attempt,
                           !.sends = @ + attempt.sends,
                           !.answers = Answers(@, attempt),
                           !.token = TokenAfter(args.auth_method, result.token,
                                                attempt)]
              gives_up == [after EXCEPT !.pc = "raised", !.error = attempt.error]
          IN  result' =
                CASE attempt.error = "" -> [after EXCEPT !.pc = "returned"]
                  [] attempt.error = "ConnectionError" ->
                        IF Exhausted(result.connection_tries, CONNECTION_MAX_TRIES)
                        THEN gives_up
                        ELSE [after EXCEPT !.connection_tries = @ + 1]
                  [] attempt.error = "RateLimitError" ->
                        IF Exhausted(result.rate_tries, RATE_LIMIT_MAX_TRIES)
                        THEN gives_up
                        ELSE [after EXCEPT !.rate_tries = @ + 1,
                                           !.connection_tries = 0]
                  [] attempt.error = "ServerError" ->
                        IF Exhausted(result.server_tries, SERVER_MAX_TRIES)
                        THEN gives_up
                        ELSE [after EXCEPT !.server_tries = @ + 1,
                                           !.rate_tries = 0,
                                           !.connection_tries = 0]
                  [] OTHER -> gives_up
    /\ UNCHANGED <<fn, args, pagVars, runVars>>

NextRequest == CallRequest \/ RequestAttempt

SpecRequest == InitRequest /\ [][NextRequest]_vars

Requested == fn = "request" /\ result.last # NoAttempt

\* a 4xx client error other than 401 and 429 is raised without any retry
ClientErrorNotRetried ==
    (/\ 400 <= result.last.first /\ result.last.first < 500
     /\ result.last.first \notin {401, 429})
        => /\ result.pc = "raised"
           /\ result.error = "ClientError"
           /\ result.last.sends = 1
           /\ result.last.refreshes = 0

PreviousSignal == ContinuationSignal(style, Response(data, links_next))

FollowsUrl ==
    \/ style \in {"link_header", "odata"}
    \/ style = "jsonpath" /\ stream_config.pagination_next_is_url

FollowsToken ==
    \/ style = "cursor"
    \/ style = "jsonpath" /\ ~stream_config.pagination_next_is_url

\* C33: for link_header, odata and jsonpath configured as a full URL, every
\* request after the first uses as its URL exactly the next URL taken from
\* the previous page and passes no params; for jsonpath configured as a
\* token and for cursor, every request after the first uses the original
\* URL and the initial params plus the cursor param set to the value from
\* the previous page.
C33_FollowUpRequests ==
    [][ (requests >= 1 /\ requests' = requests + 1) =>
            /\ FollowsUrl =>
                  lastReq' = [url |-> PreviousSignal.s, params |-> NoParams]
            /\ FollowsToken =>
                  /\ lastReq'.url = "u0"
                  /\ ~lastReq'.params.none
                  /\ lastReq'.params.kv =
                         ("cursor" :> PreviousSignal.s) @@ StaticParams.kv ]_vars

\* the third request of a cursor paginator carried the static params and
\* the cursor of the second page, which differs from that of the first
C33_Witness ==
    /\ style = "cursor"
    /\ requests = 3
    /\ data = JDict(<<Pair("value", JList(<<Rec>>)), Pair("next_cursor", JStr("u1", 2))>>)
    /\ lastReq = [url |-> "u0",
                  params |-> Params(("cursor" :> "u2") @@ ("q" :> "x"))]

(***************************************************************************)
(* _sync_parent_stream over the raw pages of a page-numbered stream without *)
(* a records path: each page the paginator yields goes through             *)
(* extract_records, every record extracted is written, and the paginator   *)
(* then applies its stop check to the same page.                           *)
(***************************************************************************)
MaxRawPages == 3

RawPages ==
    {JDict(<<Pair("data", JList(<<Rec, Rec>>))>>),
     JDict(<<Pair("data", JList(<<Rec>>))>>),
     JDict(<<Pair("data", JList(<<>>))>>),
     JDict(<<Pair("data", JList(<<JNum(5)>>))>>),
     JDict(<<Pair("data", JList(<<>>)), Pair("total", JNum(2))>>),
     JDict(<<Pair("data", JList(<<>>)), Pair("other", JList(<<Rec>>))>>),
     JDict(<<Pair("rows", JList(<<>>))>>),
     JDict(<<Pair("data", JNull)>>),
     JDict(<<>>),
     JList(<<>>),
     JList(<<Rec, Rec>>)}

InitPages ==
    /\ IdlePaginator
    /\ IdleRun
    /\ fn = ""
    /\ args \in [pagination_page_size : 1..MaxPageSize, denest : BOOLEAN]
    /\ result = NoCall

\* _sync_parent_stream up to the loop over the pages
BeginPages ==
    /\ fn = ""
    /\ fn' = "_sync_parent_stream"
    /\ result' = [pc |-> "loop", pages_fetched |-> 0, page_data |-> JNull,
                  written |-> <<>>, record_count |-> 0]
    /\ UNCHANGED <<args, pagVars, runVars>>

\* a record as write_record receives it: flattened unless denest is off
WrittenRecord(record) ==
    IF args.denest THEN flatten_record(record, "", 0)
    ELSE [i \in {record.pairs[j].k : j \in 1..Len(record.pairs)} |->
             Get(record, i)]

\* one page: the request and yield of paginate_page, the record loop of
\* _sync_parent_stream on the page, and the stop check of paginate_page
SyncRawPage ==
    /\ fn = "_sync_parent_stream"
    /\ result.pc = "loop"
    /\ result.pages_fetched < MaxRawPages
    /\ \E page_data \in RawPages :
          LET raw_records == extract_records(page_data, NoPath)
              records == stop_check_records(page_data, NoPath)
          IN  result' =
                [pc |-> IF PyLen(records) < args.pagination_page_size
                        THEN "done" ELSE "loop",
                 pages_fetched |-> result.pages_fetched + 1,
                 page_data |-> page_data,
                 written |-> [i \in 1..Len(raw_records) |->
                                 WrittenRecord(raw_records[i])],
                 record_count |-> result.record_count + Len(raw_records)]
    /\ UNCHANGED <<fn, args, pagVars, runVars>>

NextPages == BeginPages \/ SyncRawPage

SpecPages == InitPages /\ [][NextPages]_vars

PageSynced == fn = "_sync_parent_stream" /\ result.pages_fetched > 0

\* a wrapper key of the page holds an empty array and no field of the page
\* holds an array with an object element
EmptyWrapper(pg) ==
    /\ IsDict(pg)
    /\ \E i \in 1..Len(pg.pairs) :
          pg.pairs[i].k \in WrapperKeys /\ pg.pairs[i].v = JList(<<>>)
    /\ NoTopLevelRecords(pg)

\* C40: for an object page with no path expression, extract_records never
\* returns an empty list: when the wrapper key holds an empty array and no
\* other field holds an array with an object element, the result is the
\* one-element list holding the whole page, so an empty final page of a
\* paginated stream produces one emitted record.
C40_EmptyPageEmitsOneRecord ==
    PageSynced =>
        /\ IsDict(result.page_data) =>
              /\ extract_records(result.page_data, NoPath) # <<>>
              /\ result.written # <<>>
        /\ EmptyWrapper(result.page_data) =>
              /\ extract_records(result.page_data, NoPath) = <<result.page_data>>
              /\ Len(result.written) = 1
              /\ DOMAIN result.written[1] =
                     {result.page_data.pairs[i].k :
                         i \in 1..Len(result.page_data.pairs)}

\* after a full page of two records, the final page {"data": []} ended the
\* paginator and was written as one record with the key "data"
C40_Witness ==
    /\ PageSynced
    /\ args.pagination_page_size = 2
    /\ result.pc = "done"
    /\ result.pages_fetched = 2
    /\ result.page_data = JDict(<<Pair("data", JList(<<>>))>>)
    /\ result.record_count = 3
    /\ Len(result.written) = 1
    /\ DOMAIN result.written[1] = {"data"}

(***************************************************************************)
(* The start of _sync_parent_stream: the starting bookmark and the params  *)
(* of the first request, as _build_request_params builds them.  A str is   *)
(* the sequence of its characters; a bookmark is 0 (None) or an index into *)
(* BookmarkTexts.                                                          *)
(***************************************************************************)
DateText == <<"2", "0", "2", "4", "-", "0", "1", "-", "0", "1">>
StampText == DateText \o <<"T", "0", "9", ":", "3", "0", ":", "0", "0", "Z">>
BookmarkTexts == <<DateText, StampText>>

\* str(bookmark_value)
BookmarkText(v) == IF v = 0 THEN <<>> ELSE BookmarkTexts[v]

\* the characters of the model that urllib.parse.quote(s, safe='') escapes
PercentEncoded ==
    (":" :> <<"%", "3", "A">>) @@ (">" :> <<"%", "3", "E">>)
    @@ ("=" :> <<"%", "3", "D">>) @@ (" " :> <<"%", "2", "0">>)

RECURSIVE url_quote(_)
url_quote(text) ==
    IF text = <<>> THEN <<>>
    ELSE (IF Head(text) \in DOMAIN PercentEncoded
          THEN PercentEncoded[Head(text)] ELSE <<Head(text)>>)
         \o url_quote(Tail(text))

StartsWith(text, pat) ==
    Len(pat) <= Len(text) /\ SubSeq(text, 1, Len(pat)) = pat

\* text.find(pat) + 1: the position of the first occurrence, 0 if none
Find(text, pat) ==
    LET at == {i \in 1..(Len(text) - Len(pat) + 1) :
                  SubSeq(text, i, i + Len(pat) - 1) = pat}
    IN  IF at = {} THEN 0 ELSE Min(at)

\* text.replace(pat, by)
RECURSIVE str_replace(_, _, _)
str_replace(text, pat, by) ==
    IF text = <<>> THEN <<>>
    ELSE IF StartsWith(text, pat)
         THEN by \o str_replace(SubSeq(text, Len(pat) + 1, Len(text)), pat, by)
    ELSE <<Head(text)>> \o str_replace(Tail(text), pat, by)

\* text.split(op, 1) of a text that holds op
str_split(text, op) ==
    LET i == Find(text, op)
    IN  <<SubSeq(text, 1, i - 1), SubSeq(text, i + Len(op), Len(text))>>

\* text.strip()
RECURSIVE str_strip(_)
str_strip(text) ==
    IF text # <<>> /\ Head(text) = " " THEN str_strip(Tail(text))
    ELSE IF text # <<>> /\ text[Len(text)] = " "
         THEN str_strip(SubSeq(text, 1, Len(text) - 1))
    ELSE text

Placeholder == <<"{", "b", "o", "o", "k", "m", "a", "r", "k", "}">>
FILTER_OPS == << <<">", "=">>, <<">">>, <<"=">>,
                 <<"g", "t", "e", ":">>, <<"g", "t", ":">> >>

\* the params the stream configures
ConfiguredParams == <<"q">> :> <<"x">>

\* sync._build_request_params: params maps each name to its value
_build_request_params(sc, bookmark) ==
    LET static == ConfiguredParams
        filter_value == str_replace(sc.bookmark_filter, Placeholder,
                                    url_quote(BookmarkText(bookmark)))
        found == {i \in 1..Len(FILTER_OPS) : Find(filter_value, FILTER_OPS[i]) # 0}
        op == FILTER_OPS[Min(found)]
        parts == str_split(filter_value, op)
    IN  IF bookmark = 0 \/ sc.replication_key = <<>> THEN static
        ELSE IF sc.bookmark_filter # <<>>
        THEN IF sc.bookmark_filter_param # <<>>
             THEN (sc.bookmark_filter_param :> filter_value) @@ static
             ELSE IF found # {}
             THEN (str_strip(parts[1]) :>
                      IF op \in {<<">">>, <<">", "=">>}
                      THEN op \o str_strip(parts[2]) ELSE str_strip(parts[2]))
                  @@ static
             ELSE (sc.replication_key :> BookmarkText(bookmark)) @@ static
        ELSE ((IF sc.bookmark_param # <<>> THEN sc.bookmark_param
               ELSE sc.replication_key) :> BookmarkText(bookmark))
             @@ static

\* the characters of the replication key "ts"
ReplicationKeyText == <<"t", "s">>

BookmarkFilters ==
    {<<>>,
     Placeholder,
     <<"t", "s", ">">> \o Placeholder,
     <<"t", "s", " ", ">", "=", " ">> \o Placeholder,
     <<"s", "=">> \o Placeholder,
     <<"t", "s", " ", "g", "t", " ">> \o Placeholder}

InitBookmark ==
    /\ IdlePaginator
    /\ IdleRun
    /\ fn = ""
    /\ \E key \in {"", "ts"}, method \in ReplicationMethods,
          bookmark_filter \in BookmarkFilters,
          bookmark_filter_param \in {<<>>, <<"f">>},
          bookmark_param \in {<<>>, <<"s", "i", "n", "c", "e">>},
          prior \in 0..Len(BookmarkTexts), start_date \in 0..Len(BookmarkTexts) :
          args = [stream_config |->
                      [name |-> "a", replication_key |-> key,
                       replication_method |-> method,
                       bookmark_filter |-> bookmark_filter,
                       bookmark_filter_param |-> bookmark_filter_param,
                       bookmark_param |-> bookmark_param],
                  state |-> State(IF prior = 0 THEN NoBookmarks
                                  ELSE "a" :> prior, ""),
                  config |-> [start_date |-> start_date]]
    /\ result = NoCall

\* _sync_parent_stream up to the first request of its paginator
BeginStream ==
    /\ fn = ""
    /\ fn' = "_sync_parent_stream"
    /\ LET sc == args.stream_config
           bookmark == starting_bookmark(sc, args.state, args.config)
       IN  result' =
             [bookmark_value |-> bookmark,
              params |-> _build_request_params(
                             [sc EXCEPT !.replication_key =
                                 IF @ = "" THEN <<>> ELSE ReplicationKeyText],
                             bookmark),
              max_replication_value |-> bookmark]
    /\ UNCHANGED <<args, pagVars, runVars>>

NextBookmark == BeginStream

SpecBookmark == InitBookmark /\ [][NextBookmark]_vars

StreamBegun == fn = "_sync_parent_stream"

\* the first request holds a param, beside the configured ones, whose value
\* holds the text
CarriedAsFilter(request_params, text) ==
    \E name \in DOMAIN request_params \ DOMAIN ConfiguredParams :
        Find(request_params[name], text) # 0

\* C35: for an INCREMENTAL stream with a replication key, the starting
\* bookmark is the prior run's bookmark when present, else the configured
\* start value when present, else none; the first request carries the
\* starting bookmark as a filter parameter iff it is not none, and the
\* running maximum starts at that same value.
C35_StartingBookmarkIsCarried ==
    (/\ StreamBegun
     /\ args.stream_config.replication_method = "INCREMENTAL"
     /\ args.stream_config.replication_key # "") =>
        LET prior == get_bookmark(args.state, "a")
            expected == IF prior # 0 THEN prior ELSE args.config.start_date
        IN  /\ result.bookmark_value = expected
            /\ result.max_replication_value = expected
            /\ expected = 0 => result.params = ConfiguredParams
            /\ expected # 0 =>
                  CarriedAsFilter(result.params, BookmarkTexts[expected])

\* C38: every call of request ends after a bounded number of HTTP
\* attempts, whatever the responses: an endpoint that always answers 5xx is
\* attempted exactly 5 times and then ServerError is raised, one that always
\* answers 429 is attempted exactly 7 times and then RateLimitError is
\* raised.
C38_BoundedAttempts ==
    fn = "request" =>
        LET most == 2 * SERVER_MAX_TRIES * RATE_LIMIT_MAX_TRIES
                      * CONNECTION_MAX_TRIES
        IN  /\ result.sends <= most
            /\ result.pc = "call" => result.sends < most
            /\ result.answers = "only_5xx" =>
                  /\ result.pc # "returned"
                  /\ result.pc = "call" => result.sends < 5
                  /\ result.pc = "raised" =>
                        result.sends = 5 /\ result.error = "ServerError"
            /\ result.answers = "only_429" =>
                  /\ result.pc # "returned"
                  /\ result.pc = "call" => result.sends < 7
                  /\ result.pc = "raised" =>
                        result.sends = 7 /\ result.error = "RateLimitError"

\* seven 429 answers in a row ended the call with RateLimitError
C38_Witness ==
    /\ fn = "request"
    /\ result.pc = "raised"
    /\ result.answers = "only_429"
    /\ result.sends = 7
    /\ result.error = "RateLimitError"

InitPaginator == PaginatorStart /\ IdleRun /\ IdleCall

SpecPaginator == InitPaginator /\ [][NextPaginator]_vars

====
